---- MODULE Spec2Model ----
(***************************************************************************)
(* Model of the hero particle animation of src/js/main.js (class           *)
(* HeroAnimation), of the mobile menu of src/js/main.js and                *)
(* src/js/modules/ui.js, and of the contact form of src/js/modules/ui.js.  *)
(*                                                                         *)
(* Numbers.  The program computes with doubles, and so does the model: a   *)
(* coordinate is the exact value of a double, and a sum, a difference and  *)
(* a product are the exact result rounded to the nearest value of 53       *)
(* binary digits, a tie to the even one, as IEEE 754 has it (Add, Sub,     *)
(* Mul, Round53).  Math.sqrt is read through its comparisons only          *)
(* (SqrtBelow, SqrtAbove).  Lengths are counted in units of 1/Scale pixel, *)
(* squares of lengths in squared units; Scale is a power of two, so the    *)
(* roundings are those of the program's pixels.  A number is written       *)
(* u + 0.f: its floor u, an integer, and its fraction f, a sequence of     *)
(* digits to the base Limb.  Math.random() returns k/RandRes for an        *)
(* integer k in 0..RandRes-1, and window sizes and pointer coordinates are *)
(* whole pixels, so that what createParticles makes are whole numbers of   *)
(* units (f is empty), on which the arithmetic of doubles is that of       *)
(* integers; the nudge toward the pointer, a product with the double 0.01, *)
(* takes a coordinate off them.  Velocities and sizes stay whole numbers   *)
(* of units and the pointer's coordinates whole pixels: the model holds    *)
(* them as integers.  Alpha values are integers in units of                *)
(* 1/OpacityScale, computed from the offsets and the distance rounded down *)
(* to 1/AlphaRes pixel.                                                    *)
(***************************************************************************)
EXTENDS Integers, Sequences, FiniteSets, TLC

VARIABLES
    hasCanvas,      \* document.getElementById('heroCanvas') is not null
    innerWidth,     \* window.innerWidth  (px)
    innerHeight,    \* window.innerHeight (px)
    canvasW,        \* this.canvas.width  (px)
    canvasH,        \* this.canvas.height (px)
    particles,      \* this.particles
    mouse,          \* this.mouse
    particleCount,  \* this.config.particleCount
    listening,      \* the three window listeners are registered
    rafPending,     \* number of callbacks handed to requestAnimationFrame, not yet run
    drawn,          \* the ctx drawing calls of the most recent animate()
    error,          \* an exception escaped the constructor
    pc,             \* "load" before the DOMContentLoaded handler has run, "idle" after
    frames,         \* number of rAF callbacks run so far
    events,         \* number of window events dispatched so far
    last,           \* the most recent step, with the state it started from
    menu,           \* the mobile menu: its button's and its nav's indicators
    form,           \* the contact form and its submit button
    timers,         \* the setTimeout callbacks of the contact form, not yet run
    uiLast,         \* the most recent steps of the menu and of the contact form
    probe           \* one particle on a surface, followed by itself

heroVars == <<hasCanvas, innerWidth, innerHeight, canvasW, canvasH, particles, mouse,
              particleCount, listening, rafPending, drawn, error, pc, frames, events, last>>

uiVars == <<menu, form, timers, uiLast>>

vars == <<hasCanvas, innerWidth, innerHeight, canvasW, canvasH, particles, mouse,
          particleCount, listening, rafPending, drawn, error, pc, frames, events, last,
          menu, form, timers, uiLast, probe>>

(***************************************************************************)
(* Bounds of the model.                                                    *)
(***************************************************************************)
MaxFrames == 2
MaxEvents == 2
MaxSubmits == 2

(***************************************************************************)
(* Units.                                                                  *)
(***************************************************************************)
\* units per pixel
Scale == 64
OpacityScale == 240000
RandRes == 32

\* the base of the digits of a number: 2^14
Limb == 16384

(***************************************************************************)
(* Inputs: the viewport sizes the window has when the page loads, the      *)
(* sizes it is resized to, the client coordinates of pointer events, the   *)
(* canvas' bounding rectangle origin, and the outcomes of Math.random().   *)
(***************************************************************************)
Viewports == { <<1280, 800>>, <<1000, 800>>, <<500, 12>>, <<768, 600>> }
ResizeTargets == { <<1000, 800>>, <<500, 400>> }
ClientPoints == { <<500, 400>> }
Rects == { <<0, 0>>, <<0, -150>> }

\* A source of Math.random() outcomes: the first calls return the listed
\* values, the later ones follow a fixed pseudo-random formula.
Streams ==
    << [ prefix |-> << 13, 16, 16, 16, 10, 20,     \* (13/32 W, H/2), at rest
                       16, 16, 16, 16, 19, 26,     \* (W/2, H/2), at rest
                        0,  0,  0,  0,  0,  0,     \* the origin, velocity (-0.25, -0.25)
                       31, 31, 31, 31, 31, 31,     \* the largest outcomes
                        0,  1,  0,  0, 10, 10 >>,  \* by the left edge, velocity (-0.25, -0.25)
         a |-> 3, b |-> 17, c |-> 5 ],
       [ prefix |-> << >>, a |-> 7, b |-> 11, c |-> 101 ],
       [ prefix |-> << >>, a |-> 0, b |-> 0, c |-> 16 ] >>   \* 0.5 every time

Seeds == { 1, 2 }

\* with these every particle is made at the centre of the canvas, at rest
StillSeeds == { 3 }

\* the inputs of the specification of the frames that go on for ever: the
\* pointer at the centre of the 1000 x 800 canvas and out of reach below it
StillViewports == { <<1000, 800>> }
StillRects == { <<0, 0>>, <<0, -200>> }

\* The (n+1)-th outcome of Math.random() of stream s, as k with value k/RandRes.
Random(s, n) ==
    LET st == Streams[s]
    IN  IF n < Len(st.prefix)
        THEN st.prefix[n + 1]
        ELSE ((st.a * n * n + st.b * n + st.c) % 1009) % RandRes

Null == << >>
Some(v) == << v >>

(***************************************************************************)
(* config                                                                  *)
(***************************************************************************)
connectionDistance == 120
mouseDistance == 180
attractionMinDistance == 50
narrowWidth == 768
narrowCount == 40
wideCount == 80

\* window.innerWidth < 768 ? 40 : 80
ParticleCountFor(w) == IF w < narrowWidth THEN narrowCount ELSE wideCount

(***************************************************************************)
(* Numbers.  A number is the exact value of a double: u + 0.f, where u is  *)
(* an integer (the floor) and f the digits of the fraction to the base     *)
(* Limb, the most significant first, the last one not 0.                   *)
(***************************************************************************)
Abs(a) == IF a < 0 THEN -a ELSE a

\* the whole number n
Grid(n) == [ u |-> n, f |-> << >> ]

\* n pixels, in units
Px(n) == Grid(n * Scale)

IsGrid(a) == a.f = << >>

\* The same value as sign and magnitude: s * (n[1] + n[2] * Limb + ...) *
\* Limb^e, with n[1] # 0 and the last digit of n not 0; zero is ExactZero.
ExactZero == [ s |-> 0, n |-> << >>, e |-> 0 ]

RECURSIVE LowZeros(_, _)
\* the number of digits 0 at the low end of n, from index i on
LowZeros(n, i) == IF i > Len(n) \/ n[i] # 0 THEN i - 1 ELSE LowZeros(n, i + 1)

RECURSIVE Top(_, _)
\* the index of the highest digit of n that is not 0, at most i
Top(n, i) == IF i = 0 \/ n[i] # 0 THEN i ELSE Top(n, i - 1)

Exact(s, n, e) ==
    LET hi == Top(n, Len(n))
        lo == LowZeros(n, 1)
    IN  IF hi = 0 \/ s = 0 THEN ExactZero
        ELSE [ s |-> s, n |-> SubSeq(n, lo + 1, hi), e |-> e + lo ]

\* the digits of the natural number v, lowest first
NatLimbs(v) == << v % Limb, (v \div Limb) % Limb, v \div (Limb * Limb) >>

ToExact(a) ==
    LET k == Len(a.f)
    IN  IF a.u >= 0
        THEN Exact(1, [ i \in 1 .. k |-> a.f[k + 1 - i] ] \o NatLimbs(a.u), -k)
        ELSE IF k = 0 THEN Exact(-1, NatLimbs(-a.u), 0)
        ELSE Exact(-1, [ i \in 1 .. k |-> IF i = 1 THEN Limb - a.f[k]
                                          ELSE Limb - 1 - a.f[k + 1 - i] ]
                           \o NatLimbs(-a.u - 1), -k)

\* the digit of x of weight Limb^p
At(x, p) ==
    LET i == p - x.e + 1
    IN  IF i >= 1 /\ i <= Len(x.n) THEN x.n[i] ELSE 0

FromExact(x) ==
    LET k == IF x.e < 0 THEN -x.e ELSE 0
        int == At(x, 0) + Limb * At(x, 1) + Limb * Limb * At(x, 2)
    IN  IF x.s >= 0 \/ k = 0
        THEN [ u |-> x.s * int, f |-> << >> \o [ j \in 1 .. k |-> At(x, -j) ] ]
        ELSE [ u |-> -int - 1,
               f |-> << >> \o [ j \in 1 .. k |-> IF j = k THEN Limb - At(x, -j)
                                                 ELSE Limb - 1 - At(x, -j) ] ]

RECURSIVE AddLimbs(_, _, _, _, _)
\* the digits of weight Limb^p and more of |a| + |b| + carry * Limb^p
AddLimbs(a, b, p, hi, carry) ==
    IF p >= hi THEN << carry >>
    ELSE LET t == At(a, p) + At(b, p) + carry
         IN  << t % Limb >> \o AddLimbs(a, b, p + 1, hi, t \div Limb)

RECURSIVE SubLimbs(_, _, _, _, _)
\* the digits of weight Limb^p and more of |a| - |b| - borrow * Limb^p
SubLimbs(a, b, p, hi, borrow) ==
    IF p >= hi THEN << >>
    ELSE LET t == At(a, p) - At(b, p) - borrow
         IN  << IF t < 0 THEN t + Limb ELSE t >>
                 \o SubLimbs(a, b, p + 1, hi, IF t < 0 THEN 1 ELSE 0)

RECURSIVE CmpLimbs(_, _, _, _)
\* the sign of |a| - |b|, by their digits of weight Limb^p down to Limb^lo
CmpLimbs(a, b, p, lo) ==
    IF p < lo THEN 0
    ELSE IF At(a, p) # At(b, p) THEN (IF At(a, p) < At(b, p) THEN -1 ELSE 1)
    ELSE CmpLimbs(a, b, p - 1, lo)

Minus(x) == [ x EXCEPT !.s = -x.s ]

\* a + b
Sum(a, b) ==
    IF a.s = 0 THEN b
    ELSE IF b.s = 0 THEN a
    ELSE LET lo == IF a.e < b.e THEN a.e ELSE b.e
             ha == a.e + Len(a.n)
             hb == b.e + Len(b.n)
             hi == IF ha > hb THEN ha ELSE hb
         IN  IF a.s = b.s THEN Exact(a.s, AddLimbs(a, b, lo, hi, 0), lo)
             ELSE LET c == CmpLimbs(a, b, hi - 1, lo)
                  IN  IF c = 0 THEN ExactZero
                      ELSE IF c > 0 THEN Exact(a.s, SubLimbs(a, b, lo, hi, 0), lo)
                      ELSE Exact(b.s, SubLimbs(b, a, lo, hi, 0), lo)

RECURSIVE ColumnSum(_, _, _, _, _)
\* a[i] * b[t + 1 - i] + ... + a[hi] * b[t + 1 - hi]
ColumnSum(a, b, t, i, hi) ==
    IF i > hi THEN 0 ELSE a[i] * b[t + 1 - i] + ColumnSum(a, b, t, i + 1, hi)

RECURSIVE MulLimbs(_, _, _, _)
\* the digits of a * b from the t-th on
MulLimbs(a, b, t, carry) ==
    IF t > Len(a) + Len(b) - 1 THEN << carry >>
    ELSE LET lo == IF t + 1 - Len(b) > 1 THEN t + 1 - Len(b) ELSE 1
             hi == IF t < Len(a) THEN t ELSE Len(a)
             v == ColumnSum(a, b, t, lo, hi) + carry
         IN  << v % Limb >> \o MulLimbs(a, b, t + 1, v \div Limb)

\* a * b
Product(a, b) ==
    IF a.s = 0 \/ b.s = 0 THEN ExactZero
    ELSE Exact(a.s * b.s, MulLimbs(a.n, b.n, 1, 0), a.e + b.e)

\* x * x
Square(x) == Product(x, x)

RECURSIVE BitLen(_)
\* the number of binary digits of the natural number v
BitLen(v) == IF v = 0 THEN 0 ELSE 1 + BitLen(v \div 2)

\* x rounded to the nearest value of 53 binary digits, a tie to the one
\* whose last digit is 0: the double that an operation with the exact result x
\* returns
Round53(x) ==
    IF x.s = 0 THEN x
    ELSE LET len == Len(x.n)
             d == 14 * (len - 1) + BitLen(x.n[len]) - 53
         IN  IF d <= 0 THEN x
             ELSE LET w == d \div 14
                      b == d % 14
                      P == 2 ^ b
                      c == x.n[w + 1]
                      guard == IF b > 0 THEN (c % P) \div (P \div 2)
                               ELSE x.n[w] \div (Limb \div 2)
                      sticky == IF b > 0 THEN (c % (P \div 2)) # 0 \/ w >= 1
                                ELSE (x.n[w] % (Limb \div 2)) # 0 \/ w >= 2
                      odd == (c \div P) % 2 = 1
                      kept == [ s |-> 1, n |-> << c - (c % P) >> \o SubSeq(x.n, w + 2, len),
                                e |-> x.e + w ]
                      inc == [ s |-> 1, n |-> << P >>, e |-> x.e + w ]
                  IN  IF guard = 1 /\ (sticky \/ odd)
                      THEN Exact(x.s, AddLimbs(kept, inc, kept.e, kept.e + Len(kept.n), 0),
                                 kept.e)
                      ELSE Exact(x.s, kept.n, kept.e)

\* a + b, a - b and a * b in doubles
Add(a, b) ==
    IF IsGrid(a) /\ IsGrid(b) THEN Grid(a.u + b.u)
    ELSE FromExact(Round53(Sum(ToExact(a), ToExact(b))))

Sub(a, b) ==
    IF IsGrid(a) /\ IsGrid(b) THEN Grid(a.u - b.u)
    ELSE FromExact(Round53(Sum(ToExact(a), Minus(ToExact(b)))))

\* whole numbers whose product fits a machine integer are multiplied as such
Mul(a, b) ==
    IF IsGrid(a) /\ IsGrid(b) /\ Abs(a.u) < 46341 /\ Abs(b.u) < 46341 THEN Grid(a.u * b.u)
    ELSE FromExact(Round53(Product(ToExact(a), ToExact(b))))

RECURSIVE FracLess(_, _, _)
\* 0.f < 0.g, the digits before the i-th being the same
FracLess(f, g, i) ==
    IF i > Len(g) THEN FALSE
    ELSE IF i > Len(f) THEN TRUE
    ELSE IF f[i] # g[i] THEN f[i] < g[i]
    ELSE FracLess(f, g, i + 1)

\* a < b
Less(a, b) == a.u < b.u \/ (a.u = b.u /\ FracLess(a.f, b.f, 1))

\* Half the distance between the doubles next to the whole number R, which
\* is not a power of 2: 2^(e - 53) for 2^e < R < 2^(e + 1).
HalfUlp(R) ==
    LET e == BitLen(R) - 1
    IN  IF e >= 11 THEN [ s |-> 1, n |-> << 2 ^ (e - 11) >>, e |-> -3 ]
        ELSE [ s |-> 1, n |-> << 2 ^ (e + 3) >>, e |-> -4 ]

\* Math.sqrt(s) < R.  Math.sqrt returns the double nearest to the root, so
\* this is: the root is below the midpoint between R and the double before it.
SqrtBelow(s, R) ==
    IF IsGrid(s) THEN s.u < R * R
    ELSE Sum(ToExact(s), Minus(Square(Sum(ToExact(Grid(R)), Minus(HalfUlp(R)))))).s < 0

\* Math.sqrt(s) > R: the root is above the midpoint between R and the double
\* after it.
SqrtAbove(s, R) ==
    IF IsGrid(s) THEN s.u > R * R
    ELSE Sum(ToExact(s), Minus(Square(Sum(ToExact(Grid(R)), HalfUlp(R))))).s > 0

\* the double 0.01, which is 5764607523034235 / 2^59
Hundredth == [ u |-> 0, f |-> << 163, 13762, 9175, 655, 6144 >> ]

(***************************************************************************)
(* createParticles                                                         *)
(***************************************************************************)
\* Variant: the velocities are (Math.random() - 0.5), without the factor 0.5.
NewParticleFast(s, i, first, W, H) ==
    LET n == 6 * (i - first)
    IN  [ x       |-> Grid(Random(s, n) * W * (Scale \div RandRes)),
          y       |-> Grid(Random(s, n + 1) * H * (Scale \div RandRes)),
          vx      |-> ((2 * Random(s, n + 2) - RandRes) * Scale) \div (2 * RandRes),
          vy      |-> ((2 * Random(s, n + 3) - RandRes) * Scale) \div (2 * RandRes),
          size    |-> (2 * Random(s, n + 4) * Scale) \div RandRes + Scale,
          opacity |-> (Random(s, n + 5) * OpacityScale) \div (2 * RandRes)
                        + OpacityScale \div 10 ]

\* The object pushed by the i-th iteration of the loop that started at index
\* `first` (indices from 0), drawing its six random numbers from stream s.
NewParticle(s, i, first, W, H) ==
    LET n == 6 * (i - first)
    IN  [ x       |-> Grid(Random(s, n) * W * (Scale \div RandRes)),
          y       |-> Grid(Random(s, n + 1) * H * (Scale \div RandRes)),
          vx      |-> ((2 * Random(s, n + 2) - RandRes) * Scale) \div (4 * RandRes),
          vy      |-> ((2 * Random(s, n + 3) - RandRes) * Scale) \div (4 * RandRes),
          size    |-> (2 * Random(s, n + 4) * Scale) \div RandRes + Scale,
          opacity |-> (Random(s, n + 5) * OpacityScale) \div (2 * RandRes)
                        + OpacityScale \div 10 ]

\* Variant: addOnly is ignored, the array is always rebuilt from scratch.
createParticlesFresh(ps, addOnly, targetCount, W, H, s) ==
    << >> \o [ k \in 1 .. targetCount |-> NewParticle(s, k - 1, 0, W, H) ]

createParticles(ps, addOnly, targetCount, W, H, s) ==
    LET currentCount == IF addOnly THEN Len(ps) ELSE 0
        kept == IF addOnly THEN ps ELSE << >>
    IN  kept \o [ k \in 1 .. (IF targetCount > currentCount
                              THEN targetCount - currentCount ELSE 0)
                    |-> NewParticle(s, currentCount + k - 1, currentCount, W, H) ]

(***************************************************************************)
(* resize: the new particle array, for the new window.innerWidth/Height    *)
(***************************************************************************)
\* Variant: the excess is never removed.
resizeNoSplice(ps, w, h, s) ==
    LET count == ParticleCountFor(w)
    IN  IF Len(ps) < count THEN createParticles(ps, TRUE, count, w, h, s) ELSE ps

\* Variant: the excess is removed from the front of the array.
resizeDropHead(ps, w, h, s) ==
    LET count == ParticleCountFor(w)
    IN  IF Len(ps) < count THEN createParticles(ps, TRUE, count, w, h, s)
        ELSE IF Len(ps) > count THEN SubSeq(ps, Len(ps) - count + 1, Len(ps))
        ELSE ps

\* Variant: every resize re-creates all particles.
resizeReinit(ps, w, h, s) ==
    createParticles(ps, FALSE, ParticleCountFor(w), w, h, s)

resize(ps, w, h, s) ==
    LET count == ParticleCountFor(w)
    IN  IF Len(ps) < count THEN createParticles(ps, TRUE, count, w, h, s)
        ELSE IF Len(ps) > count THEN SubSeq(ps, 1, count)
        ELSE ps

(***************************************************************************)
(* Distances                                                               *)
(***************************************************************************)
\* a / b rounded toward zero (b > 0)
TruncDiv(a, b) == IF a >= 0 THEN a \div b ELSE -((-a) \div b)

\* dx * dx + dy * dy
SquaredDistance(dx, dy) == Add(Mul(dx, dx), Mul(dy, dy))

\* The offset d is r pixels or more, whatever its sign: the distance is then
\* not below r.  The squares of such offsets are not computed.
Long(d, r) == d.u >= r * Scale \/ d.u < -(r * Scale)

\* The offset d is a unit more than r pixels, or more: the distance is then
\* above r.
Longer(d, r) == d.u > r * Scale \/ d.u < -(r * Scale) - 1

\* Math.sqrt(dx * dx + dy * dy) < r, r in pixels
Near(dx, dy, r) ==
    /\ ~Long(dx, r)
    /\ ~Long(dy, r)
    /\ SqrtBelow(SquaredDistance(dx, dy), r * Scale)

\* Math.sqrt(dx * dx + dy * dy) > r, r in pixels
Far(dx, dy, r) ==
    \/ Longer(dx, r)
    \/ Longer(dy, r)
    \/ SqrtAbove(SquaredDistance(dx, dy), r * Scale)

\* The floors of a and b are more than r pixels apart: a - b is r pixels or
\* more, whatever its sign.
Apart(a, b, r) == Abs(a.u - b.u) > r * Scale

\* Alpha values are computed from lengths in units of 1/AlphaRes pixel.
AlphaRes == 100

RECURSIVE FracTimes(_, _, _)
\* n * 0.f rounded down, f being taken from its i-th digit on
FracTimes(f, n, i) ==
    IF i > Len(f) THEN 0 ELSE (n * f[i] + FracTimes(f, n, i + 1)) \div Limb

\* the offset d in units of 1/AlphaRes pixel, rounded toward zero
Coarse(d) ==
    IF IsGrid(d) THEN TruncDiv(AlphaRes * d.u, Scale)
    ELSE LET x == ToExact(d)
             int == At(x, 0) + Limb * At(x, 1)
             frac == << >> \o [ j \in 1 .. -x.e |-> At(x, -j) ]
         IN  x.s * ((AlphaRes * int + FracTimes(frac, AlphaRes, 1)) \div Scale)

\* dx * dx + dy * dy, for offsets within the largest threshold, in coarse units
Dist2(dx, dy) == dx * dx + dy * dy

RECURSIVE SqrtIter(_, _, _)
\* the largest r in lo..hi with r * r <= n   (lo * lo <= n)
SqrtIter(n, lo, hi) ==
    IF lo >= hi THEN lo
    ELSE LET mid == (lo + hi + 1) \div 2
         IN  IF mid * mid <= n THEN SqrtIter(n, mid, hi) ELSE SqrtIter(n, lo, mid - 1)

\* Math.sqrt, rounded down to a whole number of coarse units
Sqrt(n) == SqrtIter(n, 0, 2 * (mouseDistance + 1) * AlphaRes)

(***************************************************************************)
(* drawLines(p, i): p is the particle just advanced, i its index (from 1), *)
(* ps the particle array and m the pointer.  The result is the particle    *)
(* after the pointer attraction, and the lines drawn, in drawing order.    *)
(***************************************************************************)
\* opacity * factor, for opacity = 1 - distance / reach, factor in 1/100, the
\* distance being that of the offsets (dx, dy)
LineAlpha(dx, dy, reach, factor) ==
    ((reach * AlphaRes - Sqrt(Dist2(Coarse(dx), Coarse(dy))))
        * ((factor * OpacityScale) \div 100)) \div (reach * AlphaRes)

\* Variant: distance <= connectionDistance.
ConnectedInclusive(p, p2) ==
    /\ ~Apart(p.x, p2.x, connectionDistance + 1)
    /\ ~Apart(p.y, p2.y, connectionDistance + 1)
    /\ ~Far(Sub(p.x, p2.x), Sub(p.y, p2.y), connectionDistance)

\* const dx = p.x - p2.x; const dy = p.y - p2.y;
\* if (Math.sqrt(dx * dx + dy * dy) < this.config.connectionDistance).
\* Where the floors of the coordinates are more than that apart the offsets
\* are Long, and they are not computed.
Connected(p, p2) ==
    /\ ~Apart(p.x, p2.x, connectionDistance)
    /\ ~Apart(p.y, p2.y, connectionDistance)
    /\ Near(Sub(p.x, p2.x), Sub(p.y, p2.y), connectionDistance)

\* the stroke from p to p2
ParticleLine(p, p2) ==
    [ op |-> "line", to |-> "particle",
      x1 |-> p.x, y1 |-> p.y, x2 |-> p2.x, y2 |-> p2.y,
      alpha |-> LineAlpha(Sub(p.x, p2.x), Sub(p.y, p2.y), connectionDistance, 15),
      lineWidth |-> Scale ]

RECURSIVE Flatten(_, _)
\* the concatenation of seqs[i], seqs[i + 1], ...
Flatten(seqs, i) == IF i > Len(seqs) THEN << >> ELSE seqs[i] \o Flatten(seqs, i + 1)

\* the body of the loop over j: the stroke to p2 if it is near, or nothing
ConnectTo(p, p2) == IF Connected(p, p2) THEN << ParticleLine(p, p2) >> ELSE << >>

\* Variant: the loop starts at j = 0.
ConnectParticlesFromFirst(p, i, ps) ==
    Flatten(<< >> \o [ j \in 1 .. Len(ps) |-> ConnectTo(p, ps[j]) ], 1)

\* for (let j = i + 1; j < this.particles.length; j++) { ... }
ConnectParticles(p, i, ps) ==
    Flatten(<< >> \o [ k \in 1 .. Len(ps) - i |-> ConnectTo(p, ps[i + k]) ], 1)

\* the stroke from p to the pointer at (mx, my)
MouseLine(p, mx, my) ==
    [ op |-> "line", to |-> "mouse",
      x1 |-> p.x, y1 |-> p.y, x2 |-> mx, y2 |-> my,
      alpha |-> LineAlpha(Sub(p.x, mx), Sub(p.y, my), mouseDistance, 30),
      lineWidth |-> (3 * Scale) \div 2 ]

\* Variant: the nudge is a tenth of the way (dx * 0.01 * 10).
AttractTenth(p, dx, dy) ==
    [ p EXCEPT !.x = Sub(p.x, Mul(Mul(dx, Hundredth), Grid(10))),
               !.y = Sub(p.y, Mul(Mul(dy, Hundredth), Grid(10))) ]

\* p.x -= dx * 0.01; p.y -= dy * 0.01
Attract(p, dx, dy) ==
    [ p EXCEPT !.x = Sub(p.x, Mul(dx, Hundredth)),
               !.y = Sub(p.y, Mul(dy, Hundredth)) ]

\* Variant: the test is (this.mouse.x !== undefined), which null passes; in
\* the arithmetic null counts as 0.
ConnectMouseNullAsZero(p, m) ==
    LET mx == Grid(IF m.x = Null THEN 0 ELSE m.x[1])
        my == Grid(IF m.y = Null THEN 0 ELSE m.y[1])
        dx == Sub(p.x, mx)
        dy == Sub(p.y, my)
    IN  IF Near(dx, dy, mouseDistance)
        THEN [ lines |-> << MouseLine(p, mx, my) >>,
               p |-> IF Far(dx, dy, attractionMinDistance) THEN Attract(p, dx, dy) ELSE p ]
        ELSE [ lines |-> << >>, p |-> p ]

\* Variant: the attraction is applied at every distance below mouseDistance.
ConnectMouseAlwaysAttract(p, m) ==
    IF m.x # Null
    THEN LET mx == Grid(m.x[1])
             my == Grid(m.y[1])
             dx == Sub(p.x, mx)
             dy == Sub(p.y, my)
         IN  IF Near(dx, dy, mouseDistance)
             THEN [ lines |-> << MouseLine(p, mx, my) >>, p |-> Attract(p, dx, dy) ]
             ELSE [ lines |-> << >>, p |-> p ]
    ELSE [ lines |-> << >>, p |-> p ]

\* Variant: the reach of the pointer is this.mouse.radius, not
\* this.config.mouseDistance.
ConnectMouseRadius(p, m) ==
    IF m.x # Null
    THEN LET mx == Grid(m.x[1])
             my == Grid(m.y[1])
             dx == Sub(p.x, mx)
             dy == Sub(p.y, my)
         IN  IF Near(dx, dy, m.radius)
             THEN [ lines |-> << MouseLine(p, mx, my) >>,
                    p |-> IF Far(dx, dy, attractionMinDistance)
                          THEN Attract(p, dx, dy)
                          ELSE p ]
             ELSE [ lines |-> << >>, p |-> p ]
    ELSE [ lines |-> << >>, p |-> p ]

\* if (distance < this.config.mouseDistance) { ... }, for the pointer at
\* (mx, my) and the offsets dx = p.x - mx, dy = p.y - my
ConnectMouseAt(p, mx, my, dx, dy) ==
    IF Near(dx, dy, mouseDistance)
    THEN [ lines |-> << MouseLine(p, mx, my) >>,
           p |-> IF Far(dx, dy, attractionMinDistance) THEN Attract(p, dx, dy) ELSE p ]
    ELSE [ lines |-> << >>, p |-> p ]

\* if (this.mouse.x != null) { ... }; the pointer's coordinates are whole
\* numbers of units
ConnectMouse(p, m) ==
    IF m.x # Null
    THEN ConnectMouseAt(p, Grid(m.x[1]), Grid(m.y[1]),
                        Sub(p.x, Grid(m.x[1])), Sub(p.y, Grid(m.y[1])))
    ELSE [ lines |-> << >>, p |-> p ]

\* the calls, then those of the pointer's part r, and the particle as r has it
Before(calls, r) == [ p |-> r.p, lines |-> calls \o r.lines ]

drawLines(p, i, ps, m) == Before(ConnectParticles(p, i, ps), ConnectMouse(p, m))

(***************************************************************************)
(* animate                                                                 *)
(***************************************************************************)
\* if (p.x < 0 || p.x > this.canvas.width), for the coordinate v and the
\* width size
OutOfRange(v, size) == Less(v, Grid(0)) \/ Less(Px(size), v)

\* Variant: a bounce loses speed (p.vx *= -0.5).
AdvanceDamped(p, W, H) ==
    LET x == Add(p.x, Grid(p.vx))
        y == Add(p.y, Grid(p.vy))
    IN  [ p EXCEPT !.x = x, !.y = y,
                   !.vx = IF OutOfRange(x, W) THEN TruncDiv(-p.vx, 2) ELSE p.vx,
                   !.vy = IF OutOfRange(y, H) THEN TruncDiv(-p.vy, 2) ELSE p.vy ]

\* p.x += p.vx; p.y += p.vy; and the two bounce tests
Advance(p, W, H) ==
    LET x == Add(p.x, Grid(p.vx))
        y == Add(p.y, Grid(p.vy))
    IN  [ p EXCEPT !.x = x, !.y = y,
                   !.vx = IF OutOfRange(x, W) THEN -p.vx ELSE p.vx,
                   !.vy = IF OutOfRange(y, H) THEN -p.vy ELSE p.vy ]

\* this.ctx.arc(p.x, p.y, p.size, 0, Math.PI * 2), filled at p.opacity
Arc(p) == [ op |-> "arc", x |-> p.x, y |-> p.y, r |-> p.size, alpha |-> p.opacity ]

\* the drawing part of the forEach callback, for the particle p as advanced:
\* the arc, then this.drawLines(p, i)
Draw(p, i, ps, m) == Before(<< Arc(p) >>, drawLines(p, i, ps, m))

\* Variant: every particle is advanced before any line is drawn, so that the
\* lines of particle i go to the advanced positions of the particles after it.
IterationAllAdvanced(ps, i, m, W, H) ==
    Draw(Advance(ps[i], W, H), i, [ k \in 1 .. Len(ps) |-> Advance(ps[k], W, H) ], m)

\* The body of the forEach callback for index i.  It reads and writes
\* particle i and reads the particles after it, which the iterations before
\* it have not touched: ps is the array as it was when the frame began.
Iteration(ps, i, m, W, H) == Draw(Advance(ps[i], W, H), i, ps, m)

\* what the iterations done leave: the particles, and the drawing calls in
\* the order of the iterations
Outcome(done) ==
    [ particles |-> [ i \in 1 .. Len(done) |-> done[i].p ],
      drawn |-> Flatten([ i \in 1 .. Len(done) |-> done[i].lines ], 1) ]

\* Variant: a mouseout is handled in the middle of the forEach, so that the
\* second half of the particles finds the pointer unset.
animateInterleaved(ps, m, W, H) ==
    Outcome(<< >> \o [ i \in 1 .. Len(ps) |->
                          Iteration(ps, i,
                                    IF 2 * i <= Len(ps) THEN m
                                    ELSE [ m EXCEPT !.x = Null, !.y = Null ],
                                    W, H) ])

\* clearRect, then the forEach: the particles and the drawing calls of the frame
animate(ps, m, W, H) ==
    Outcome(<< >> \o [ i \in 1 .. Len(ps) |-> Iteration(ps, i, m, W, H) ])

(***************************************************************************)
(* The mobile menu and the contact form as the scripts find them at load.  *)
(***************************************************************************)
\* the texts and colours that the submit handler gives the button, character
\* for character as the script's string literals have them
SendingLabel == "Enviando..."
SuccessLabel == "Â¡Mensaje Enviado!"
ErrorLabel == "Error. Intente nuevamente."
SuccessGreen == "#10b981"
ErrorRed == "#ef4444"

\* the text of the submit button in the page's markup
SubmitLabels == { "Enviar Mensaje" }

\* delays of setTimeout, in units of TimeUnit milliseconds
TimeUnit == 1500
RequestDelay == 1500 \div TimeUnit
RestoreDelay == 3000 \div TimeUnit

\* #mobileMenuBtn and #navMenu, closed: neither has the class 'active', and the
\* button's aria-expanded is aria (Null if the attribute is absent)
MenuAtLoad(present, aria) ==
    [ present |-> present, btnActive |-> FALSE, navActive |-> FALSE, ariaExpanded |-> aria ]

MenuMarkups ==
    { MenuAtLoad(TRUE, Null), MenuAtLoad(TRUE, Some("false")), MenuAtLoad(FALSE, Null) }

\* .contact-form and its button[type="submit"], untouched.  resetShadowed: the
\* form has a control whose name or id is "reset", so that form.reset is that
\* control and not the form's reset() method.  logged: the number of calls of
\* console.error.
FormAtLoad(present, hasBtn, label, resetShadowed) ==
    [ present |-> present, hasBtn |-> hasBtn, text |-> label, disabled |-> FALSE,
      bg |-> "", dirty |-> FALSE, rejected |-> FALSE,
      resetShadowed |-> resetShadowed, logged |-> 0 ]

\* The forms of the pages: with its submit button, without one, and no form.
\* None has a control named "reset": form.reset is the method.
FormMarkups ==
    { FormAtLoad(TRUE, TRUE, label, FALSE) : label \in SubmitLabels }
        \cup { FormAtLoad(TRUE, FALSE, "", FALSE), FormAtLoad(FALSE, FALSE, "", FALSE) }

\* the menu m and the form f with their listeners registered and no step taken
UIAtLoad(m, f) ==
    /\ menu = m
    /\ form = f
    /\ timers = << >>
    /\ uiLast = [ op |-> "none", click |-> "none", before |-> m,
                  prevClick |-> "none", before2 |-> m,
                  submits |-> 0, sub |-> 0, subs |-> << >> ]

(***************************************************************************)
(* The state before the DOMContentLoaded handler of main.js:216-219 runs.  *)
(***************************************************************************)
\* the animation's part of it, on a page with or without the canvas and a
\* window of size vp
HeroAtLoad(canvas, vp) ==
    /\ hasCanvas = canvas
    /\ innerWidth = vp[1]
    /\ innerHeight = vp[2]
    /\ canvasW = 0
    /\ canvasH = 0
    /\ particles = << >>
    /\ mouse = [ x |-> Null, y |-> Null, radius |-> 0 ]
    /\ particleCount = 0
    /\ listening = FALSE
    /\ rafPending = 0
    /\ drawn = << >>
    /\ error = FALSE
    /\ pc = "load"
    /\ frames = 0
    /\ events = 0
    /\ last = [ op |-> "none", w |-> 0, n |-> 0, pointer |-> "none",
                event |-> << >>, exitedX |-> { }, exitedY |-> { } ]

Init ==
    /\ \E canvas \in BOOLEAN, vp \in Viewports : HeroAtLoad(canvas, vp)
    /\ UIAtLoad(MenuAtLoad(TRUE, Some("false")),
                FormAtLoad(TRUE, TRUE, "Enviar Mensaje", FALSE))
    /\ probe = Null

\* the record of a step: its name, the canvas width and the number of particles
\* it started from, the kind of the latest pointer event and, for a mousemove,
\* the event's clientX, clientY and the rectangle's left, top; the particles
\* that a run of animate() took out of the canvas' bounds are filled in by the
\* step that ran it
Step(op) ==
    [ op |-> op, w |-> canvasW, n |-> Len(particles),
      pointer |-> IF op \in { "mousemove", "mouseout" } THEN op ELSE last.pointer,
      event |-> last.event, exitedX |-> { }, exitedY |-> { } ]

\* 0 <= p.x <= canvas.width, 0 <= p.y <= canvas.height
InsideX(p, W) == ~OutOfRange(p.x, W)
InsideY(p, H) == ~OutOfRange(p.y, H)

\* the record of a step that runs animate() on the particles ps of a canvas
\* W x H and ends with the particles qs: the particles whose x, whose y, was
\* within the canvas before the run and is not after it
FrameStep(op, ps, qs, W, H) ==
    [ Step(op) EXCEPT
        !.exitedX = { i \in 1 .. Len(ps) : InsideX(ps[i], W) /\ ~InsideX(qs[i], W) },
        !.exitedY = { i \in 1 .. Len(ps) : InsideY(ps[i], H) /\ ~InsideY(qs[i], H) } ]

\* Variant: animate() asks for two callbacks.
requestAnimationFrameTwice(n) == n + 2

\* Variant: animate() does not ask for a callback.
requestAnimationFrameDropped(n) == n

\* requestAnimationFrame(cb) with n callbacks waiting: one more is waiting
requestAnimationFrame(n) == n + 1

(***************************************************************************)
(* new HeroAnimation(), in the DOMContentLoaded handler: the constructor   *)
(* and, with a canvas, the whole of init(): resize(), createParticles(),   *)
(* addEventListeners() and the first animate(), which asks for the first   *)
(* callback.  It is one task: no event is handled within it.  Each of      *)
(* resize() and createParticles() draws from a stream of seeds.            *)
(***************************************************************************)
\* Variant: the test for a missing canvas is absent, and
\* this.canvas.getContext('2d') throws on null.
ConstructorNoGuard(seeds) ==
    /\ pc = "load"
    /\ IF ~hasCanvas
       THEN /\ error' = TRUE
            /\ last' = Step("constructor")
            /\ UNCHANGED <<canvasW, canvasH, particles, mouse, particleCount,
                           listening, rafPending, drawn>>
       ELSE /\ error' = error
            /\ \E s1 \in seeds, s2 \in seeds :
                  LET count == ParticleCountFor(innerWidth)
                      pointer == [ x |-> Null, y |-> Null, radius |-> 150 ]
                  IN  \E made \in { createParticles(
                                        resize(<< >>, innerWidth, innerHeight, s1),
                                        FALSE, count, innerWidth, innerHeight, s2) } :
                      \E r \in { animate(made, pointer, innerWidth, innerHeight) } :
                          /\ particles' = r.particles
                          /\ drawn' = r.drawn
                          /\ mouse' = pointer
                          /\ particleCount' = count
                          /\ last' = FrameStep("constructor", made, r.particles,
                                               innerWidth, innerHeight)
            /\ canvasW' = innerWidth
            /\ canvasH' = innerHeight
            /\ listening' = TRUE
            /\ rafPending' = requestAnimationFrame(rafPending)
    /\ pc' = "idle"
    /\ UNCHANGED <<uiVars, probe>>
    /\ UNCHANGED <<hasCanvas, innerWidth, innerHeight, frames, events>>

Constructor(seeds) ==
    /\ pc = "load"
    /\ IF ~hasCanvas
       THEN \* if (!this.canvas) return;
            /\ last' = Step("constructor")
            /\ UNCHANGED <<canvasW, canvasH, particles, mouse, particleCount,
                           listening, rafPending, drawn>>
       ELSE /\ \E s1 \in seeds, s2 \in seeds :
                  LET count == ParticleCountFor(innerWidth)
                      pointer == [ x |-> Null, y |-> Null, radius |-> 150 ]
                  IN  \E made \in { createParticles(
                                        resize(<< >>, innerWidth, innerHeight, s1),
                                        FALSE, count, innerWidth, innerHeight, s2) } :
                      \E r \in { animate(made, pointer, innerWidth, innerHeight) } :
                          /\ particles' = r.particles
                          /\ drawn' = r.drawn
                          /\ mouse' = pointer
                          /\ particleCount' = count
                          /\ last' = FrameStep("constructor", made, r.particles,
                                               innerWidth, innerHeight)
            /\ canvasW' = innerWidth
            /\ canvasH' = innerHeight
            /\ listening' = TRUE
            /\ rafPending' = requestAnimationFrame(rafPending)
    /\ pc' = "idle"
    /\ UNCHANGED <<uiVars, probe>>
    /\ UNCHANGED <<hasCanvas, innerWidth, innerHeight, error, frames, events>>

(***************************************************************************)
(* The window's events, dispatched between tasks; a handler runs only if   *)
(* addEventListeners registered it.  The new sizes of the window come from *)
(* targets, the client coordinates of the pointer from points, the origin  *)
(* of the canvas' bounding rectangle from rects.                           *)
(***************************************************************************)
WindowResize(targets, seeds) ==
    /\ pc = "idle"
    /\ events < MaxEvents
    /\ \E vp \in targets, s \in seeds :
          /\ innerWidth' = vp[1]
          /\ innerHeight' = vp[2]
          /\ IF listening
             THEN /\ canvasW' = vp[1]
                  /\ canvasH' = vp[2]
                  /\ particleCount' = ParticleCountFor(vp[1])
                  /\ particles' = resize(particles, vp[1], vp[2], s)
             ELSE UNCHANGED <<canvasW, canvasH, particleCount, particles>>
    /\ events' = events + 1
    /\ last' = Step("resize")
    /\ UNCHANGED <<uiVars, probe>>
    /\ UNCHANGED <<hasCanvas, mouse, listening, rafPending, drawn, error, pc, frames>>

\* Variant: the mousemove handler stores clientX, clientY as they are.
MouseMoveClient(points, rects) ==
    /\ pc = "idle"
    /\ events < MaxEvents
    /\ \E c \in points, rect \in rects :
          /\ IF listening
             THEN mouse' = [ mouse EXCEPT !.x = Some(c[1] * Scale),
                                          !.y = Some(c[2] * Scale) ]
             ELSE UNCHANGED mouse
          /\ last' = [ Step("mousemove") EXCEPT !.event = <<c[1], c[2], rect[1], rect[2]>> ]
    /\ events' = events + 1
    /\ UNCHANGED <<uiVars, probe>>
    /\ UNCHANGED <<hasCanvas, innerWidth, innerHeight, canvasW, canvasH, particles,
                   particleCount, listening, rafPending, drawn, error, pc, frames>>

MouseMove(points, rects) ==
    /\ pc = "idle"
    /\ events < MaxEvents
    /\ \E c \in points, rect \in rects :
          /\ IF listening
             THEN mouse' = [ mouse EXCEPT !.x = Some((c[1] - rect[1]) * Scale),
                                          !.y = Some((c[2] - rect[2]) * Scale) ]
             ELSE UNCHANGED mouse
          /\ last' = [ Step("mousemove") EXCEPT !.event = <<c[1], c[2], rect[1], rect[2]>> ]
    /\ events' = events + 1
    /\ UNCHANGED <<uiVars, probe>>
    /\ UNCHANGED <<hasCanvas, innerWidth, innerHeight, canvasW, canvasH, particles,
                   particleCount, listening, rafPending, drawn, error, pc, frames>>

\* Variant: the mouseout handler unsets this.mouse.x only.
MouseOutHalf ==
    /\ pc = "idle"
    /\ events < MaxEvents
    /\ IF listening
       THEN mouse' = [ mouse EXCEPT !.x = Null ]
       ELSE UNCHANGED mouse
    /\ events' = events + 1
    /\ last' = Step("mouseout")
    /\ UNCHANGED <<uiVars, probe>>
    /\ UNCHANGED <<hasCanvas, innerWidth, innerHeight, canvasW, canvasH, particles,
                   particleCount, listening, rafPending, drawn, error, pc, frames>>

MouseOut ==
    /\ pc = "idle"
    /\ events < MaxEvents
    /\ IF listening
       THEN mouse' = [ mouse EXCEPT !.x = Null, !.y = Null ]
       ELSE UNCHANGED mouse
    /\ events' = events + 1
    /\ last' = Step("mouseout")
    /\ UNCHANGED <<uiVars, probe>>
    /\ UNCHANGED <<hasCanvas, innerWidth, innerHeight, canvasW, canvasH, particles,
                   particleCount, listening, rafPending, drawn, error, pc, frames>>

(***************************************************************************)
(* A callback handed to requestAnimationFrame runs: animate(), which asks  *)
(* for the next one.  The model counts the callbacks in frames; count is   *)
(* what the counter becomes.                                               *)
(***************************************************************************)
\* Variant: animate() unsets the pointer once it has drawn.
CallbackConsumesPointer(count) ==
    /\ pc = "idle"
    /\ rafPending > 0
    /\ \E r \in { animate(particles, mouse, canvasW, canvasH) } :
          /\ particles' = r.particles
          /\ drawn' = r.drawn
          /\ last' = FrameStep("frame", particles, r.particles, canvasW, canvasH)
    /\ mouse' = [ mouse EXCEPT !.x = Null, !.y = Null ]
    /\ rafPending' = requestAnimationFrame(rafPending - 1)
    /\ frames' = count
    /\ UNCHANGED <<uiVars, probe>>
    /\ UNCHANGED <<hasCanvas, innerWidth, innerHeight, canvasW, canvasH,
                   particleCount, listening, error, pc, events>>

Callback(count) ==
    /\ pc = "idle"
    /\ rafPending > 0
    /\ \E r \in { animate(particles, mouse, canvasW, canvasH) } :
          /\ particles' = r.particles
          /\ drawn' = r.drawn
          /\ last' = FrameStep("frame", particles, r.particles, canvasW, canvasH)
    /\ rafPending' = requestAnimationFrame(rafPending - 1)
    /\ frames' = count
    /\ UNCHANGED <<uiVars, probe>>
    /\ UNCHANGED <<hasCanvas, innerWidth, innerHeight, canvasW, canvasH, mouse,
                   particleCount, listening, error, pc, events>>

\* the callback, counted
Frame == Callback(frames + 1)

(***************************************************************************)
(* The page with any of the windows and streams of the inputs, followed    *)
(* for MaxFrames callbacks and MaxEvents events.                           *)
(***************************************************************************)
Next ==
    \/ Constructor(Seeds)
    \/ WindowResize(ResizeTargets, Seeds)
    \/ MouseMove(ClientPoints, Rects)
    \/ MouseOut
    \/ frames < MaxFrames /\ Frame

Spec == Init /\ [][Next]_vars

(***************************************************************************)
(* The page followed for ever.  The callbacks are not limited in number;   *)
(* the model counts them modulo two, so that each callback is a            *)
(* step that changes the state.  The states are finitely many because the  *)
(* particles are: Math.random() returns 0.5 every time, which makes every  *)
(* particle at the centre of the canvas, at rest, and the pointer is moved *)
(* onto that centre or out of reach of it, so that no frame moves a        *)
(* particle.  MaxEvents events are dispatched, at any time.                *)
(***************************************************************************)
\* the callback, counted modulo two
FrameOfLoop == Callback(1 - frames)

LoopInit ==
    /\ \E canvas \in BOOLEAN, vp \in StillViewports : HeroAtLoad(canvas, vp)
    /\ UIAtLoad(MenuAtLoad(TRUE, Some("false")),
                FormAtLoad(TRUE, TRUE, "Enviar Mensaje", FALSE))
    /\ probe = Null

LoopNext ==
    \/ Constructor(StillSeeds)
    \/ WindowResize(ResizeTargets, StillSeeds)
    \/ MouseMove(ClientPoints, StillRects)
    \/ MouseOut
    \/ FrameOfLoop

\* A callback is waiting and can run.  animate() is total, so this is what
\* enables FrameOfLoop, and among the steps of LoopNext that change frames
\* those of FrameOfLoop are the only ones.
CallbackDue ==
    /\ pc = "idle"
    /\ rafPending > 0
    /\ frames' = 1 - frames

\* The browser runs a callback handed to requestAnimationFrame before a later
\* repaint: a callback that is waiting does run.  This is weak fairness of
\* FrameOfLoop, written on CallbackDue so that it is decided without running
\* animate().
LoopSpec == LoopInit /\ [][LoopNext]_vars /\ WF_frames(CallbackDue)

(***************************************************************************)
(* One particle by itself.  With the pointer unset, a run of animate()     *)
(* changes particle i as the forEach callback does for that particle       *)
(* alone: the lines it draws move nothing.  The probe is a particle as     *)
(* createParticles made it on the 1000 x 800 surface and the first frame   *)
(* advanced it, when a resize to 500 x 400 has been handled; ProbeFrame is *)
(* one more run of animate().  The variables of the page stay as they are  *)
(* at load: the probe alone is followed.                                   *)
(***************************************************************************)
\* outcomes of Math.random() for x, y, vx, vy of the particles followed
ProbeOutcomes ==
    { << 0, 8, 0, 16 >>, << 8, 8, 31, 16 >>, << 16, 8, 16, 16 >>,
      << 17, 16, 16, 16 >>, << 20, 16, 16, 16 >>, << 29, 8, 0, 16 >>,
      << 29, 8, 31, 16 >>, << 8, 0, 16, 0 >>, << 8, 26, 16, 31 >>,
      << 8, 26, 16, 0 >> }

ProbeCreated(k) ==
    [ x       |-> Grid(k[1] * 1000 * (Scale \div RandRes)),
      y       |-> Grid(k[2] * 800 * (Scale \div RandRes)),
      vx      |-> ((2 * k[3] - RandRes) * Scale) \div (4 * RandRes),
      vy      |-> ((2 * k[4] - RandRes) * Scale) \div (4 * RandRes),
      size    |-> Scale,
      opacity |-> OpacityScale \div 10 ]

ProbeInit ==
    /\ HeroAtLoad(TRUE, << 1000, 800 >>)
    /\ UIAtLoad(MenuAtLoad(TRUE, Some("false")),
                FormAtLoad(TRUE, TRUE, "Enviar Mensaje", FALSE))
    /\ \E k \in ProbeOutcomes :
          probe = [ p |-> Advance(ProbeCreated(k), 1000, 800), W |-> 500, H |-> 400 ]

ProbeFrame ==
    /\ probe # Null
    /\ probe' = [ probe EXCEPT
                    !.p = Iteration(<< probe.p >>, 1, mouse, probe.W, probe.H).p ]
    /\ UNCHANGED <<heroVars, uiVars>>

ProbeNext == ProbeFrame

\* frames keep running
ProbeSpec == ProbeInit /\ [][ProbeNext]_vars /\ WF_vars(ProbeFrame)

ProbeInside == InsideX(probe.p, probe.W) /\ InsideY(probe.p, probe.H)

(***************************************************************************)
(* The mobile menu (main.js:5-35, ui.js:12-44).  A click has a target: in  *)
(* the menu button, on a link of the nav menu, elsewhere in the nav menu,  *)
(* or outside both.                                                        *)
(***************************************************************************)
ClickTargets == { "button", "link", "nav", "outside" }

\* menuBtn.contains(e.target)
InButton(t) == t = "button"

\* navMenu.contains(e.target)
InNav(t) == t \in { "link", "nav" }

\* the target is in an element of navMenu.querySelectorAll('a')
OnNavLink(t) == t = "link"

toggleMenu(m) ==
    LET isExpanded == m.ariaExpanded = Some("true")
    IN  [ m EXCEPT !.ariaExpanded = Some(IF ~isExpanded THEN "true" ELSE "false"),
                   !.btnActive = ~m.btnActive,
                   !.navActive = ~m.navActive ]

closeMenuKeepsAria(m) ==
    [ m EXCEPT !.btnActive = FALSE, !.navActive = FALSE ]

closeMenu(m) ==
    [ m EXCEPT !.btnActive = FALSE, !.navActive = FALSE, !.ariaExpanded = Some("false") ]

DispatchClickDocumentAlways(m, t) ==
    LET onLink == IF OnNavLink(t) THEN closeMenu(m) ELSE m
        onBtn == IF InButton(t) THEN toggleMenu(onLink) ELSE onLink
    IN  IF ~InNav(t) THEN closeMenu(onBtn) ELSE onBtn

\* The click listeners that a click on t reaches, from the target up to the
\* document: the link's, the button's, the document's.
DispatchClick(m, t) ==
    LET onLink == IF OnNavLink(t) THEN closeMenu(m) ELSE m
        onBtn == IF InButton(t) THEN toggleMenu(onLink) ELSE onLink
    IN  IF ~InNav(t) /\ ~InButton(t) THEN closeMenu(onBtn) ELSE onBtn

\* a click; without #mobileMenuBtn or #navMenu no listener is registered
Click ==
    /\ \E t \in ClickTargets :
          /\ menu' = IF menu.present THEN DispatchClick(menu, t) ELSE menu
          /\ uiLast' = [ uiLast EXCEPT !.op = "click", !.click = t, !.before = menu,
                                       !.prevClick = uiLast.click,
                                       !.before2 = uiLast.before ]
    /\ UNCHANGED <<form, timers, heroVars, probe>>

(***************************************************************************)
(* The contact form (ui.js:83-127).  The submit listener is an async       *)
(* function of three parts: up to the await, from the await to the end of  *)
(* the try block, and the callback of its last setTimeout.  A timer is     *)
(* [kind, remaining, original, sub]: what it runs, the time left, the      *)
(* originalText of the call that set it, and the number of that call.      *)
(***************************************************************************)
\* the listener up to the await, for the n-th submit
OnSubmit(f, ts, n) ==
    IF ~f.hasBtn
    THEN \* btn is null and btn.textContent throws: the listener's promise is rejected
         [ form |-> [ f EXCEPT !.rejected = TRUE ], timers |-> ts ]
    ELSE [ form |-> [ f EXCEPT !.text = SendingLabel, !.disabled = TRUE ],
           timers |-> Append(ts, [ kind |-> "request", remaining |-> RequestDelay,
                                   original |-> f.text, sub |-> n ]) ]

RequestOutcomeRejected == "rejected"

\* how the awaited promise is settled: its executor only calls
\* setTimeout(resolve, 1500)
RequestOutcome == "fulfilled"

\* the catch block, without its setTimeout
Caught(f) ==
    [ f EXCEPT !.logged = @ + 1, !.text = ErrorLabel, !.bg = ErrorRed ]

\* The listener from the await on: the rest of the try block, and the catch
\* block if a statement of it throws.  The two assignments to btn do not throw;
\* form.reset() throws a TypeError if form.reset is not the method.
OnRequestSettled(f, ts, t) ==
    LET restore == [ kind |-> "restore", remaining |-> RestoreDelay,
                     original |-> t.original, sub |-> t.sub ]
        shown == [ f EXCEPT !.text = SuccessLabel, !.bg = SuccessGreen ]
    IN  IF RequestOutcome # "fulfilled"
        THEN [ form |-> Caught(f), timers |-> Append(ts, restore) ]
        ELSE IF f.resetShadowed
        THEN [ form |-> Caught(shown), timers |-> Append(ts, restore) ]
        ELSE [ form |-> [ shown EXCEPT !.dirty = FALSE ], timers |-> Append(ts, restore) ]

OnRestoreStaysDisabled(f, t) ==
    [ f EXCEPT !.text = t.original, !.bg = "" ]

\* the callback of setTimeout(..., 3000)
OnRestore(f, t) ==
    [ f EXCEPT !.text = t.original, !.disabled = FALSE, !.bg = "" ]

\* the user edits a field of the form
Type ==
    /\ form.present
    /\ ~form.dirty
    /\ form' = [ form EXCEPT !.dirty = TRUE ]
    /\ uiLast' = [ uiLast EXCEPT !.op = "type" ]
    /\ UNCHANGED <<menu, timers, heroVars, probe>>

\* a submit event of the form
Submit ==
    /\ form.present
    /\ uiLast.submits < MaxSubmits
    /\ LET r == OnSubmit(form, timers, uiLast.submits + 1)
       IN  /\ form' = r.form
           /\ timers' = r.timers
    /\ uiLast' = [ uiLast EXCEPT
                     !.op = "submit",
                     !.submits = uiLast.submits + 1,
                     !.sub = uiLast.submits + 1,
                     !.subs = Append(uiLast.subs,
                                     [ stage |-> IF form.hasBtn THEN "sending" ELSE "threw",
                                       original |-> form.text, waited |-> 0,
                                       sentAfter |-> -1, restoredAfter |-> -1 ]) ]
    /\ UNCHANGED <<menu, heroVars, probe>>

\* TimeUnit milliseconds pass; a timer that is due runs before more time passes
Tick ==
    /\ timers # << >>
    /\ \A k \in 1 .. Len(timers) : timers[k].remaining > 0
    /\ timers' = [ k \in 1 .. Len(timers) |->
                     [ timers[k] EXCEPT !.remaining = timers[k].remaining - 1 ] ]
    /\ uiLast' = [ uiLast EXCEPT
                     !.op = "tick",
                     !.subs = [ n \in 1 .. Len(uiLast.subs) |->
                                  IF uiLast.subs[n].stage \in { "threw", "restored" }
                                  THEN uiLast.subs[n]
                                  ELSE [ uiLast.subs[n] EXCEPT !.waited = @ + TimeUnit ] ] ]
    /\ UNCHANGED <<menu, form, heroVars, probe>>

\* timers[k] is due, and so is no timer of the same delay set before it
Due(ts, k) ==
    /\ ts[k].remaining = 0
    /\ \A j \in 1 .. k - 1 : ~(ts[j].remaining = 0 /\ ts[j].kind = ts[k].kind)

\* a due timer runs
Fire ==
    /\ \E k \in 1 .. Len(timers) :
          /\ Due(timers, k)
          /\ LET t == timers[k]
                 rest == SubSeq(timers, 1, k - 1) \o SubSeq(timers, k + 1, Len(timers))
             IN  IF t.kind = "request"
                 THEN LET r == OnRequestSettled(form, rest, t)
                      IN  /\ form' = r.form
                          /\ timers' = r.timers
                          /\ uiLast' = [ uiLast EXCEPT
                                           !.op = "settled",
                                           !.sub = t.sub,
                                           !.subs[t.sub] =
                                               [ @ EXCEPT
                                                   !.stage = IF r.form.text = ErrorLabel
                                                             THEN "error" ELSE "sent",
                                                   !.sentAfter = uiLast.subs[t.sub].waited,
                                                   !.waited = 0 ] ]
                 ELSE /\ form' = OnRestore(form, t)
                      /\ timers' = rest
                      /\ uiLast' = [ uiLast EXCEPT
                                       !.op = "restored",
                                       !.sub = t.sub,
                                       !.subs[t.sub] =
                                           [ @ EXCEPT !.stage = "restored",
                                                      !.restoredAfter = uiLast.subs[t.sub].waited,
                                                      !.waited = 0 ] ]
    /\ UNCHANGED <<menu, heroVars, probe>>

\* the page's menu and form; the animation's variables stay as they are at load
UIInit ==
    /\ HeroAtLoad(FALSE, << 1000, 800 >>)
    /\ \E m \in MenuMarkups, f \in FormMarkups : UIAtLoad(m, f)
    /\ probe = Null

UINext ==
    \/ Click
    \/ Type
    \/ Submit
    \/ Tick
    \/ Fire

UISpec == UIInit /\ [][UINext]_vars

\* the contact form alone, the menu staying as in the markup
FormInit ==
    /\ HeroAtLoad(FALSE, << 1000, 800 >>)
    /\ \E f \in FormMarkups : UIAtLoad(MenuAtLoad(TRUE, Some("false")), f)
    /\ probe = Null

FormNext ==
    \/ Type
    \/ Submit
    \/ Tick
    \/ Fire

\* time passes, and a timer that is due runs
FormFairSpec == FormInit /\ [][FormNext]_vars /\ WF_vars(Tick) /\ WF_vars(Fire)

(***************************************************************************)
(* Vocabulary of the properties.  The properties measure with numbers that *)
(* are not rounded: Offset, Times and Gap are the difference, the product  *)
(* and the squared distance themselves, not what a double holds of them.   *)
(***************************************************************************)
\* the step being taken is a run of the resize listener
ResizeHandled == listening /\ last'.op = "resize"

\* the step being taken is a callback of requestAnimationFrame: animate()
FrameRun == last'.op = "frame"

\* the state is one between two tasks of a page whose animation was started
Running == hasCanvas /\ pc = "idle"

\* where the frame being run takes the particle p before it looks at the
\* pointer: p.x + p.vx and p.y + p.vy, as doubles
Advanced(p) == [ x |-> Add(p.x, Grid(p.vx)), y |-> Add(p.y, Grid(p.vy)) ]

\* a - b
Offset(a, b) == Sum(ToExact(a), Minus(ToExact(b)))

\* n * x, for a whole number n
Times(n, x) == Product(ToExact(Grid(n)), x)

\* x < y
Under(x, y) == Sum(x, Minus(y)).s < 0

\* |x|
Size(x) == IF x.s < 0 THEN Minus(x) ELSE x

Sign(n) == IF n > 0 THEN 1 ELSE IF n < 0 THEN -1 ELSE 0

\* The sign of (ax - bx)^2 + (ay - by)^2 - R^2, for a radius R in units and
\* points whose coordinates are no more than mouseDistance pixels and a unit
\* apart.
Gap(ax, ay, bx, by, R) ==
    IF IsGrid(ax) /\ IsGrid(ay) /\ IsGrid(bx) /\ IsGrid(by) /\ IsGrid(R)
    THEN Sign((ax.u - bx.u) * (ax.u - bx.u) + (ay.u - by.u) * (ay.u - by.u) - R.u * R.u)
    ELSE LET dx == Offset(ax, bx)
             dy == Offset(ay, by)
             r == ToExact(R)
         IN  Sum(Sum(Product(dx, dx), Product(dy, dy)), Minus(Product(r, r))).s

\* the points (ax, ay) and (bx, by) are less than r pixels apart
Nearer(ax, ay, bx, by, r) ==
    /\ ~Apart(ax, bx, r)
    /\ ~Apart(ay, by, r)
    /\ Gap(ax, ay, bx, by, Px(r)) < 0

\* the points (ax, ay) and (bx, by) are more than r pixels apart
Farther(ax, ay, bx, by, r) ==
    \/ Apart(ax, bx, r)
    \/ Apart(ay, by, r)
    \/ Gap(ax, ay, bx, by, Px(r)) > 0

\* d is the length of (dx, dy) in units of 1/AlphaRes pixel, each of the three
\* rounded toward zero
CoarseLength(d, dx, dy) ==
    LET d2 == Coarse(dx) * Coarse(dx) + Coarse(dy) * Coarse(dy)
    IN  0 <= d /\ d * d <= d2 /\ d2 < (d + 1) * (d + 1)

ParticleLines(log) ==
    SelectSeq(log, LAMBDA c : c.op = "line" /\ c.to = "particle")

MouseLines(log) ==
    SelectSeq(log, LAMBDA c : c.op = "line" /\ c.to = "mouse")

\* the particles as the frame being run advances them
AllAdvanced == << >> \o [ i \in 1 .. Len(particles) |-> Advanced(particles[i]) ]

\* the pairs i < j of particles that are less than 120 pixels apart when the
\* frame being run examines them: particle i at adv[i], where the frame has
\* advanced it to, and particle j where it was when the frame began
NearPairs(adv) ==
    { ij \in (1 .. Len(particles)) \X (1 .. Len(particles)) :
          /\ ij[1] < ij[2]
          /\ Nearer(adv[ij[1]].x, adv[ij[1]].y,
                    particles[ij[2]].x, particles[ij[2]].y, connectionDistance) }

\* the end points of the line of the pair ij
PairEnds(adv, ij) ==
    << adv[ij[1]].x, adv[ij[1]].y, particles[ij[2]].x, particles[ij[2]].y >>

\* a rounding error: 2^-20 pixel, in units
Slack == [ s |-> 1, n |-> << 1 >>, e |-> -1 ]

(***************************************************************************)
(* C1.  Between events, once the animation is initialized, the number of   *)
(* particles is the target for the width seen by the latest resize or      *)
(* initialization: 40 below 768, otherwise 80.                             *)
(***************************************************************************)
C1_CountMatchesWidth ==
    Running =>
        /\ canvasW = innerWidth
        /\ Len(particles) = (IF canvasW < 768 THEN 40 ELSE 80)
        /\ particleCount = Len(particles)

\* a resize from a wide to a narrow window has been handled
C1_Witness ==
    /\ Running
    /\ last.op = "resize"
    /\ last.w >= 768
    /\ canvasW < 768
    /\ Len(particles) = 40

(***************************************************************************)
(* C2.  Between events every particle lies within the surface:             *)
(* 0 <= x <= W and 0 <= y <= H.                                            *)
(***************************************************************************)
C2_InBounds ==
    Running =>
        \A i \in 1 .. Len(particles) :
            InsideX(particles[i], canvasW) /\ InsideY(particles[i], canvasH)

(***************************************************************************)
(* C3.  A resize from a width below 768 to a width of 768 or more takes    *)
(* the particle count from 40 to 80 and leaves the 40 particles that       *)
(* existed as they were; the 40 new ones follow them.                      *)
(***************************************************************************)
C3_GrowKeepsExisting ==
    [][ (ResizeHandled /\ canvasW < 768 /\ canvasW' >= 768) =>
            /\ Len(particles) = 40
            /\ Len(particles') = 80
            /\ \A i \in 1 .. 40 : particles'[i] = particles[i] ]_vars

C3_Witness ==
    /\ Running
    /\ last.op = "resize"
    /\ last.w < 768
    /\ last.n = 40
    /\ canvasW >= 768
    /\ Len(particles) = 80

(***************************************************************************)
(* C4.  A resize whose target is below the number of particles keeps       *)
(* exactly the first target-many particles, in order and unchanged.        *)
(***************************************************************************)
C4_ShrinkTruncatesTail ==
    [][ (ResizeHandled /\ (IF innerWidth' < 768 THEN 40 ELSE 80) < Len(particles)) =>
            /\ Len(particles') = (IF innerWidth' < 768 THEN 40 ELSE 80)
            /\ \A i \in 1 .. Len(particles') : particles'[i] = particles[i] ]_vars

C4_Witness ==
    /\ Running
    /\ last.op = "resize"
    /\ last.n = 80
    /\ Len(particles) = 40
    /\ frames > 0

(***************************************************************************)
(* C5.  A resize that keeps the width on the same side of 768 leaves the   *)
(* particle array as it was.                                               *)
(***************************************************************************)
C5_SameTargetKeepsAll ==
    [][ (ResizeHandled /\ ((canvasW < 768) <=> (innerWidth' < 768))) =>
            particles' = particles ]_vars

\* a handled resize between two different widths on the same side of 768
C5_Witness ==
    /\ Running
    /\ last.op = "resize"
    /\ last.w # canvasW
    /\ ((last.w < 768) <=> (canvasW < 768))
    /\ Len(particles) = last.n
    /\ Len(particles) > 0

(***************************************************************************)
(* C6.  In a frame a line between two particles is drawn exactly for the   *)
(* pairs i < j whose distance, when the pair is examined, is below 120     *)
(* pixels: particle i is then at its advanced position and particle j      *)
(* where it was when the frame began.  The alpha of the line is            *)
(* (1 - distance / 120) * 0.15, at most 0.15, which it is at distance 0.   *)
(***************************************************************************)
\* the line joins two points less than 120 pixels apart, with the alpha of
\* their distance d:  alpha = 3 * (120 * AlphaRes - d) in units of
\* 1/OpacityScale, d being the distance in units of 1/AlphaRes pixel
C6_LineIsShort(c) ==
    /\ Nearer(c.x1, c.y1, c.x2, c.y2, 120)
    /\ c.alpha % 3 = 0
    /\ CoarseLength(120 * AlphaRes - c.alpha \div 3, Sub(c.x1, c.x2), Sub(c.y1, c.y2))
    /\ c.alpha <= (15 * OpacityScale) \div 100
    /\ ((c.x1 = c.x2 /\ c.y1 = c.y2) => c.alpha = (15 * OpacityScale) \div 100)

\* C6: every line between particles of a frame is one of C6_LineIsShort, and
\* the lines are those of the pairs that are near each other when examined,
\* one line for each
C6_ConnectingLines ==
    [][ FrameRun =>
          \A lines \in { ParticleLines(drawn') } :
          \A ends \in { { << lines[k].x1, lines[k].y1, lines[k].x2, lines[k].y2 >> :
                              k \in 1 .. Len(lines) } } :
          \A adv \in { AllAdvanced } :
          \A near \in { NearPairs(adv) } :
              /\ \A k \in 1 .. Len(lines) : C6_LineIsShort(lines[k])
              /\ \A ij \in near : PairEnds(adv, ij) \in ends
              /\ Len(lines) = Cardinality(near) ]_vars

\* The two particles at rest at (520, 400) and (640, 400) are exactly 120
\* pixels apart; a frame has moved the second toward the pointer at
\* (500, 400), to 640 - 140 * 0.01, and the frame after it has drawn the line
\* from (520, 400) to there, and no line from (520, 400) to (640, 400).
C6_Witness ==
    /\ Running
    /\ last.op = "frame"
    /\ frames = 2
    /\ Len(particles) = 80
    /\ particles[1].x = Px(520) /\ particles[1].y = Px(400)
    /\ \E k \in 1 .. Len(drawn) :
          /\ drawn[k].op = "line" /\ drawn[k].to = "particle"
          /\ drawn[k].x1 = Px(520) /\ drawn[k].y1 = Px(400)
          /\ drawn[k].x2 = Sub(Px(640), Mul(Px(140), Hundredth))
          /\ ~IsGrid(drawn[k].x2)
          /\ drawn[k].y2 = Px(400)
          /\ drawn[k].alpha > 0
    /\ \A k \in 1 .. Len(drawn) :
          drawn[k].op = "line" =>
              ~ (drawn[k].x1 = Px(520) /\ drawn[k].x2 = Px(640)
                   /\ drawn[k].y1 = Px(400) /\ drawn[k].y2 = Px(400))

(***************************************************************************)
(* C7.  A frame run while the pointer is unset draws no line to the        *)
(* pointer and moves every particle by exactly its velocity.               *)
(***************************************************************************)
C7_NoPointerNoAttraction ==
    [][ (FrameRun /\ mouse.x = Null /\ mouse.y = Null) =>
            /\ Len(MouseLines(drawn')) = 0
            /\ Len(particles') = Len(particles)
            /\ \A i \in 1 .. Len(particles) :
                  /\ Offset(particles'[i].x, particles[i].x) = ToExact(Grid(particles[i].vx))
                  /\ Offset(particles'[i].y, particles[i].y) = ToExact(Grid(particles[i].vy)) ]_vars

\* a frame has run after the pointer left, on particles that an earlier frame
\* had moved toward the pointer
C7_Witness ==
    /\ Running
    /\ last.op = "frame"
    /\ last.pointer = "mouseout"
    /\ mouse.x = Null
    /\ mouse.y = Null
    /\ Len(particles) > 0
    /\ \E i \in 1 .. Len(particles) : ~IsGrid(particles[i].x)

(***************************************************************************)
(* C8.  Pointer at (500, 400), particle at (520, 400) when its pointer     *)
(* check runs.                                                             *)
(***************************************************************************)
\* the particles that the frame being run advances to (520, 400)
C8_Arriving ==
    { i \in 1 .. Len(particles) :
          /\ Add(particles[i].x, Grid(particles[i].vx)) = Px(520)
          /\ Add(particles[i].y, Grid(particles[i].vy)) = Px(400) }

C8_PointerAt500_400 == mouse.x = Some(500 * Scale) /\ mouse.y = Some(400 * Scale)

\* C8 as stated: the particle's x decreases by (520 - 500) * 0.01 = 0.2
C8_NudgedAtDistance20 ==
    [][ (FrameRun /\ C8_PointerAt500_400) =>
            \A i \in C8_Arriving :
                particles'[i].x = Sub(Px(520), Mul(Px(20), Hundredth)) ]_vars

\* C8 amended: at distance 20, which is not above 50, the particle stays at
\* (520, 400), and the line to the pointer is drawn with alpha
\* (1 - 20 / 180) * 0.3
C8_NotNudgedAtDistance20 ==
    [][ (FrameRun /\ C8_PointerAt500_400) =>
            \A i \in C8_Arriving :
                /\ particles'[i].x = Px(520)
                /\ particles'[i].y = Px(400)
                /\ \E k \in 1 .. Len(drawn') :
                      drawn'[k] = [ op |-> "line", to |-> "mouse",
                                    x1 |-> Px(520), y1 |-> Px(400),
                                    x2 |-> Px(500), y2 |-> Px(400),
                                    alpha |-> ((180 - 20) * 30 * (OpacityScale \div 100)) \div 180,
                                    lineWidth |-> (3 * Scale) \div 2 ] ]_vars

\* a frame with the pointer at (500, 400) has drawn the line from (520, 400)
C8_Witness ==
    /\ Running
    /\ last.op = "frame"
    /\ C8_PointerAt500_400
    /\ \E k \in 1 .. Len(drawn) :
          /\ drawn[k].op = "line"
          /\ drawn[k].to = "mouse"
          /\ drawn[k].x1 = Px(520)
          /\ drawn[k].y1 = Px(400)
    /\ \E i \in 1 .. Len(particles) :
          particles[i].x = Px(520) /\ particles[i].y = Px(400)

(***************************************************************************)
(* C9.  When new HeroAnimation() has returned, the page being initialized, *)
(* the array has the target length for the surface width (40 below 768,    *)
(* else 80; 80 for 768 and for 1000) and every particle has 0 <= x < W and *)
(* 0 <= y < H.                                                             *)
(***************************************************************************)
C9_InitialParticles ==
    (Running /\ last.op = "constructor") =>
        /\ Len(particles) = (IF canvasW < 768 THEN 40 ELSE 80)
        /\ (canvasW = 1000 => Len(particles) = 80)
        /\ (canvasW = 768 => Len(particles) = 80)
        /\ \A i \in 1 .. Len(particles) :
              /\ ~Less(particles[i].x, Grid(0)) /\ Less(particles[i].x, Px(canvasW))
              /\ ~Less(particles[i].y, Grid(0)) /\ Less(particles[i].y, Px(canvasH))

(***************************************************************************)
(* C10.  Without the canvas element nothing is initialized, then or later: *)
(* no particles, no listeners, no frame scheduled or run, nothing drawn,   *)
(* no exception, whatever events the window dispatches.                    *)
(***************************************************************************)
C10_AbsentCanvasNoOp ==
    ~hasCanvas =>
        /\ particles = << >>
        /\ particleCount = 0
        /\ mouse = [ x |-> Null, y |-> Null, radius |-> 0 ]
        /\ canvasW = 0
        /\ canvasH = 0
        /\ ~listening
        /\ rafPending = 0
        /\ frames = 0
        /\ drawn = << >>
        /\ ~error
        /\ pc \in { "load", "idle" }

\* the page has no canvas, and a resize and a pointer event were dispatched
C10_Witness ==
    /\ ~hasCanvas
    /\ pc = "idle"
    /\ events = 2
    /\ last.op = "resize"
    /\ last.pointer = "mousemove"

(***************************************************************************)
(* C11.  Once init() has returned, exactly one callback of animate() is    *)
(* waiting, whatever resize and pointer events were handled; before that,  *)
(* and without a canvas, none is.                                          *)
(***************************************************************************)
C11_OneFramePending ==
    /\ Running => rafPending = 1
    /\ ~Running => rafPending = 0

\* animate() has run as a callback after an event was handled, and one callback
\* is waiting
C11_Witness ==
    /\ Running
    /\ frames > 0
    /\ events > 0
    /\ last.op = "frame"
    /\ rafPending = 1

(***************************************************************************)
(* C12.  Under fair scheduling of the callbacks, once init() has returned  *)
(* the frames go on for ever, whatever events are dispatched: from every   *)
(* state on, a callback runs that makes the number of callbacks run even,  *)
(* and one that makes it odd, and a callback is waiting after each.        *)
(***************************************************************************)
C12_FramesGoOn ==
    \A parity \in { 0, 1 } :
        Running ~> (last.op = "frame" /\ frames = parity /\ rafPending > 0)

\* callbacks have run after the last event the model dispatches, their number
\* even
C12_Witness ==
    /\ Running
    /\ events = MaxEvents
    /\ last.op = "frame"
    /\ frames = 0
    /\ rafPending = 1

(***************************************************************************)
(* C13.  The pointer is what the latest pointer event made it: unset after *)
(* a mouseout (and before any pointer event), and after a mousemove the    *)
(* event's client coordinates less the left and top of the canvas'         *)
(* bounding rectangle.                                                     *)
(***************************************************************************)
C13_LastWriteWins ==
    Running =>
        /\ last.pointer \in { "none", "mouseout" } => mouse.x = Null /\ mouse.y = Null
        /\ last.pointer = "mousemove" =>
              /\ mouse.x = Some((last.event[1] - last.event[3]) * Scale)
              /\ mouse.y = Some((last.event[2] - last.event[4]) * Scale)

\* two events were dispatched, the latest pointer event a mousemove over a
\* canvas whose top is not the viewport's, and a frame has run since
C13_Witness ==
    /\ Running
    /\ events = 2
    /\ last.op = "frame"
    /\ last.pointer = "mousemove"
    /\ last.event[4] # 0
    /\ mouse.y = Some((last.event[2] - last.event[4]) * Scale)

(***************************************************************************)
(* C14.  In a frame with the pointer set, a particle's pointer check runs  *)
(* at its advanced position, at distance d from the pointer.  If d < 180   *)
(* the line from there to the pointer is drawn with alpha                  *)
(* (1 - d / 180) * 0.3, and otherwise no line; if 50 < d < 180 the         *)
(* particle ends the frame 1% of the way toward the pointer, at            *)
(* x - dx * 0.01 and y - dy * 0.01 as doubles have them, and otherwise at  *)
(* its advanced position.                                                  *)
(***************************************************************************)
\* b is 1% of the way from a to m, to within a rounding error:
\* | (a - b) - (a - m) / 100 | < Slack / 100
C14_OnePercent(a, b, m) ==
    Under(Size(Sum(Times(100, Offset(a, b)), Minus(Offset(a, m)))), Slack)

\* b is a - (a - m) * 0.01 as the program computes it
C14_Computed(a, b, m) == b = Sub(a, Mul(Sub(a, m), Hundredth))

\* c is the line from (ax, ay) to the pointer at (mx, my), with the alpha of
\* their distance d:  alpha = 4 * (180 * AlphaRes - d) in units of
\* 1/OpacityScale, d being the distance in units of 1/AlphaRes pixel
C14_LineToPointer(c, ax, ay, mx, my) ==
    /\ c.x1 = ax /\ c.y1 = ay /\ c.x2 = mx /\ c.y2 = my
    /\ c.lineWidth = (3 * Scale) \div 2
    /\ c.alpha % 4 = 0
    /\ CoarseLength(180 * AlphaRes - c.alpha \div 4, Sub(ax, mx), Sub(ay, my))

\* C14: the lines to the pointer and the final positions of a frame run with
\* the pointer at (mx, my), particle i being at adv[i] when it is checked
C14_PointerCheck ==
    [][ (FrameRun /\ mouse.x # Null) =>
          \A lines \in { MouseLines(drawn') } :
          \A mx \in { Grid(mouse.x[1]) } : \A my \in { Grid(mouse.y[1]) } :
          \A adv \in { AllAdvanced } :
          \A within \in { { i \in 1 .. Len(particles) :
                              Nearer(adv[i].x, adv[i].y, mx, my, 180) } } :
              /\ \A i \in 1 .. Len(particles) :
                     /\ i \in within =>
                            \E k \in 1 .. Len(lines) :
                                C14_LineToPointer(lines[k], adv[i].x, adv[i].y, mx, my)
                     /\ i \notin within =>
                            \A k \in 1 .. Len(lines) :
                                lines[k].x1 # adv[i].x \/ lines[k].y1 # adv[i].y
                     /\ IF i \in within /\ Farther(adv[i].x, adv[i].y, mx, my, 50)
                        THEN /\ C14_Computed(adv[i].x, particles'[i].x, mx)
                             /\ C14_Computed(adv[i].y, particles'[i].y, my)
                             /\ C14_OnePercent(adv[i].x, particles'[i].x, mx)
                             /\ C14_OnePercent(adv[i].y, particles'[i].y, my)
                        ELSE /\ particles'[i].x = adv[i].x
                             /\ particles'[i].y = adv[i].y
              /\ Len(lines) = Cardinality(within) ]_vars

\* the second frame with the pointer at (500, 400) has drawn the line from
\* (520, 400), where a particle still is, and a line from where the first had
\* moved a particle to, more than 50 pixels away, where no particle is any
\* more; other particles have no line
C14_Witness ==
    /\ Running
    /\ last.op = "frame"
    /\ frames = 2
    /\ mouse.x = Some(500 * Scale)
    /\ mouse.y = Some(400 * Scale)
    /\ \E k \in 1 .. Len(drawn), i \in 1 .. Len(particles) :
          /\ drawn[k].op = "line" /\ drawn[k].to = "mouse"
          /\ drawn[k].x1 = Px(520) /\ drawn[k].y1 = Px(400)
          /\ particles[i].x = Px(520) /\ particles[i].y = Px(400)
    /\ \E k \in 1 .. Len(drawn), i \in 1 .. Len(particles) :
          /\ drawn[k].op = "line" /\ drawn[k].to = "mouse"
          /\ ~IsGrid(drawn[k].x1)
          /\ Farther(drawn[k].x1, drawn[k].y1, drawn[k].x2, drawn[k].y2, 50)
          /\ particles[i].x = Sub(drawn[k].x1, Mul(Sub(drawn[k].x1, drawn[k].x2), Hundredth))
          /\ particles[i].y = Sub(drawn[k].y1, Mul(Sub(drawn[k].y1, drawn[k].y2), Hundredth))
          /\ \A j \in 1 .. Len(particles) :
                particles[j].x # drawn[k].x1 \/ particles[j].y # drawn[k].y1
    /\ Len(MouseLines(drawn)) < Len(particles)

(***************************************************************************)
(* C15.  In a frame a particle's vx changes sign exactly if its advanced x *)
(* is below 0 or above the width, and its vy exactly if its advanced y is  *)
(* below 0 or above the height, each axis by itself.  No frame and no      *)
(* event changes the magnitude of a particle's vx or vy.                   *)
(***************************************************************************)
C15_ElasticBounce ==
    [][ /\ FrameRun =>
              \A adv \in { AllAdvanced } :
              \A i \in 1 .. Len(particles) :
                  /\ particles'[i].vx =
                        (IF \/ Less(adv[i].x, Grid(0))
                            \/ Less(Px(canvasW), adv[i].x)
                         THEN 0 - particles[i].vx ELSE particles[i].vx)
                  /\ particles'[i].vy =
                        (IF \/ Less(adv[i].y, Grid(0))
                            \/ Less(Px(canvasH), adv[i].y)
                         THEN 0 - particles[i].vy ELSE particles[i].vy)
        /\ (Running \/ FrameRun) =>
              \A i \in 1 .. Len(particles) :
                  i <= Len(particles') =>
                      /\ Abs(particles'[i].vx) = Abs(particles[i].vx)
                      /\ Abs(particles'[i].vy) = Abs(particles[i].vy) ]_vars

\* a frame has taken one particle past the top edge only, and turned its vy
\* and not its vx, and on a canvas made smaller it has turned both velocities
\* of a particle beyond the right and the bottom edge
C15_Witness ==
    /\ Running
    /\ last.op = "frame"
    /\ \/ \E i \in last.exitedY :
             /\ i \notin last.exitedX
             /\ Less(particles[i].y, Grid(0)) /\ particles[i].vy > 0
             /\ InsideX(particles[i], canvasW) /\ particles[i].vx > 0
       \/ \E i \in 1 .. Len(particles) :
             /\ events > 0
             /\ Less(Px(canvasW), particles[i].x) /\ particles[i].vx # 0
             /\ Less(Px(canvasH), particles[i].y) /\ particles[i].vy # 0

(***************************************************************************)
(* C16.  Two frames in a row, the pointer unset, no event between them.    *)
(***************************************************************************)
\* a frame is run right after a run of animate(), with the pointer unset
C16_NextFrame ==
    /\ FrameRun
    /\ last.op \in { "frame", "constructor" }
    /\ mouse.x = Null
    /\ mouse.y = Null

\* C16 as stated: a particle that the earlier run took out of the bounds is
\* within them, in x and in y, after the later frame
C16_BackWithinBounds ==
    [][ C16_NextFrame =>
            \A i \in last.exitedX \cup last.exitedY :
                /\ InsideX(particles'[i], canvasW)
                /\ InsideY(particles'[i], canvasH) ]_vars

(***************************************************************************)
(* C17.  After every step every particle has its opacity in [0.1, 0.6],    *)
(* its size in [1, 3] and its vx and vy in [-0.25, 0.25]; and no frame and *)
(* no event changes the size or the opacity of a particle that persists.   *)
(***************************************************************************)
C17_InRanges(p) ==
    /\ OpacityScale \div 10 <= p.opacity /\ p.opacity <= (6 * OpacityScale) \div 10
    /\ Scale <= p.size /\ p.size <= 3 * Scale
    /\ 0 - Scale \div 4 <= p.vx /\ p.vx <= Scale \div 4
    /\ 0 - Scale \div 4 <= p.vy /\ p.vy <= Scale \div 4

\* C17: the ranges after every step, and size and opacity kept by every step
\* taken once the particles exist
C17_AttributesKept ==
    [][ /\ \A i \in 1 .. Len(particles') : C17_InRanges(particles'[i])
        /\ (Running \/ FrameRun) =>
              \A i \in 1 .. Len(particles) :
                  i <= Len(particles') =>
                      /\ particles'[i].size = particles[i].size
                      /\ particles'[i].opacity = particles[i].opacity ]_vars

\* frames and events have passed, and there are a particle with the least
\* size and opacity and the greatest speed, after a bounce, and one with the
\* greatest size and opacity that Math.random() gives
C17_Witness ==
    /\ Running
    /\ frames > 0
    /\ events = MaxEvents
    /\ \E i \in 1 .. Len(particles) :
          /\ particles[i].size = Scale
          /\ particles[i].opacity = OpacityScale \div 10
          /\ particles[i].vx = Scale \div 4
    /\ \E i \in 1 .. Len(particles) :
          /\ particles[i].size = (2 * (RandRes - 1) * Scale) \div RandRes + Scale
          /\ particles[i].opacity = ((RandRes - 1) * OpacityScale) \div (2 * RandRes)
                                       + OpacityScale \div 10

(***************************************************************************)
(* C18.  A run of animate() leaves the pointer as it was: this.mouse is    *)
(* the same after the frame as before it, whether or not lines to the      *)
(* pointer were drawn or particles moved toward it.                        *)
(***************************************************************************)
C18_FrameKeepsPointer ==
    [][ FrameRun => mouse' = mouse ]_vars

\* a frame with the pointer at (500, 550) has drawn lines to it and moved a
\* particle toward it, and the pointer is at (500, 550)
C18_Witness ==
    /\ Running
    /\ last.op = "frame"
    /\ mouse.x = Some(500 * Scale)
    /\ mouse.y = Some(550 * Scale)
    /\ \E k \in 1 .. Len(drawn) :
          /\ drawn[k].op = "line" /\ drawn[k].to = "mouse"
          /\ drawn[k].x2 = Px(500) /\ drawn[k].y2 = Px(550)
          /\ \A i \in 1 .. Len(particles) :
                particles[i].x # drawn[k].x1 \/ particles[i].y # drawn[k].y1

(***************************************************************************)
(* C19.  A run of animate() is one step: no event is handled within it,    *)
(* and the pointer, the canvas' width and height and the number of         *)
(* particles are the same after it as before it.  Every particle there was *)
(* when it began is drawn once, and every particle within reach of the     *)
(* pointer as it was when the frame began, and no other, has a line to     *)
(* that pointer.                                                           *)
(***************************************************************************)
C19_FrameAtomic ==
    [][ FrameRun =>
          /\ events' = events
          /\ mouse' = mouse
          /\ canvasW' = canvasW
          /\ canvasH' = canvasH
          /\ particleCount' = particleCount
          /\ Len(particles') = Len(particles)
          /\ Len(SelectSeq(drawn', LAMBDA c : c.op = "arc")) = Len(particles)
          /\ \A lines \in { MouseLines(drawn') } :
                IF mouse.x = Null
                THEN Len(lines) = 0
                ELSE /\ \A k \in 1 .. Len(lines) :
                           lines[k].x2 = Grid(mouse.x[1]) /\ lines[k].y2 = Grid(mouse.y[1])
                     /\ \A adv \in { AllAdvanced } :
                           Len(lines) =
                             Cardinality({ i \in 1 .. Len(particles) :
                                 Nearer(adv[i].x, adv[i].y,
                                        Grid(mouse.x[1]), Grid(mouse.y[1]), 180) }) ]_vars

\* a frame has run between a mousemove and a resize that changed the width
\* and the number of particles: it drew the particles and the lines to the
\* pointer of before the resize
C19_Witness ==
    /\ Running
    /\ last.op = "resize"
    /\ last.pointer = "mousemove"
    /\ frames > 0
    /\ mouse.x # Null
    /\ last.w # canvasW
    /\ last.n # Len(particles)
    /\ Len(SelectSeq(drawn, LAMBDA c : c.op = "arc")) = last.n
    /\ Len(MouseLines(drawn)) > 0

(***************************************************************************)
(* C20.  In a frame each pair of particles i < j is examined once: the     *)
(* lines between particles are, counted with repetition, the pairs i < j   *)
(* that are near each other when examined, each drawn from particle i's    *)
(* advanced position to particle j.  So there is at most one line per      *)
(* pair, none from a particle to itself, and at most n (n - 1) / 2 lines.  *)
(***************************************************************************)
\* C20: the end points of the lines are those of the near pairs, there are as
\* many lines as near pairs, and where two near pairs have the same end
\* points there are as many lines with given end points as near pairs
C20_EachPairOnce ==
    [][ FrameRun =>
          \A lines \in { ParticleLines(drawn') } :
          \A ends \in { [ k \in 1 .. Len(lines) |->
                             << lines[k].x1, lines[k].y1, lines[k].x2, lines[k].y2 >> ] } :
          \A adv \in { AllAdvanced } :
          \A near \in { { << ij, PairEnds(adv, ij) >> : ij \in NearPairs(adv) } } :
          \A nearEnds \in { { e[2] : e \in near } } :
              /\ 2 * Len(lines) <= Len(particles) * (Len(particles) - 1)
              /\ Len(lines) = Cardinality(near)
              /\ { ends[k] : k \in 1 .. Len(lines) } = nearEnds
              /\ Cardinality(nearEnds) < Cardinality(near) =>
                    \A t \in nearEnds :
                        Cardinality({ k \in 1 .. Len(lines) : ends[k] = t })
                          = Cardinality({ e \in near : e[2] = t }) ]_vars

\* a frame has drawn two lines from one particle to two others, one of them
\* where an earlier frame had moved it toward the pointer, and no line from a
\* point to itself
C20_Witness ==
    /\ Running
    /\ last.op = "frame"
    /\ \E k, l \in 1 .. Len(drawn) :
          /\ k < l
          /\ drawn[k].op = "line" /\ drawn[k].to = "particle"
          /\ drawn[l].op = "line" /\ drawn[l].to = "particle"
          /\ drawn[k].x1 = drawn[l].x1 /\ drawn[k].y1 = drawn[l].y1
          /\ (drawn[k].x2 # drawn[l].x2 \/ drawn[k].y2 # drawn[l].y2)
          /\ (~IsGrid(drawn[k].x2) \/ ~IsGrid(drawn[l].x2))
    /\ \A k \in 1 .. Len(drawn) :
          (drawn[k].op = "line" /\ drawn[k].to = "particle") =>
              (drawn[k].x1 # drawn[k].x2 \/ drawn[k].y1 # drawn[k].y2)

(***************************************************************************)
(* C21.  A frame moves a particle off its advanced position, toward the    *)
(* pointer, only if it is more than 50 pixels from the pointer there; the  *)
(* move takes each of its offsets from the pointer to 0.99 of what it was, *)
(* and leaves it no closer than 49.5 pixels to the pointer.                *)
(***************************************************************************)
\* b - m is 0.99 of a - m
C21_Scaled(a, b, m) == Times(100, Offset(b, m)) = Times(99, Offset(a, m))

\* b - m is 0.99 of a - m to within a rounding error:
\* | (b - m) - 0.99 * (a - m) | < Slack / 100
C21_ScaledNearly(a, b, m) ==
    Under(Size(Sum(Times(100, Offset(b, m)), Minus(Times(99, Offset(a, m))))), Slack)

\* 49.5 pixels, and a rounding error less
C21_Least == Grid((99 * Scale) \div 2)
C21_LeastNearly == FromExact(Sum(ToExact(C21_Least), Minus(Slack)))

\* C21 as stated: the nudges of a frame run with the pointer at (mx, my),
\* particle i being at adv[i] when it is checked and at (bx, by) when the
\* frame ends
C21_NoCollapse ==
    [][ (FrameRun /\ mouse.x # Null) =>
          \A mx \in { Grid(mouse.x[1]) } : \A my \in { Grid(mouse.y[1]) } :
          \A adv \in { AllAdvanced } :
          \A i \in 1 .. Len(particles) :
              \A bx \in { particles'[i].x } : \A by \in { particles'[i].y } :
                  IF bx # adv[i].x \/ by # adv[i].y
                  THEN /\ Farther(adv[i].x, adv[i].y, mx, my, 50)
                       /\ C21_Scaled(adv[i].x, bx, mx)
                       /\ C21_Scaled(adv[i].y, by, my)
                       /\ Gap(bx, by, mx, my, C21_Least) >= 0
                  ELSE \/ ~Nearer(adv[i].x, adv[i].y, mx, my, 180)
                       \/ ~Farther(adv[i].x, adv[i].y, mx, my, 50) ]_vars

\* C21 amended: the offsets become 0.99 of what they were to within a
\* rounding error, the product with the double 0.01 and the difference being
\* rounded, and the particle is left no closer to the pointer than 49.5
\* pixels less such an error
C21_NoCollapseRounded ==
    [][ (FrameRun /\ mouse.x # Null) =>
          \A mx \in { Grid(mouse.x[1]) } : \A my \in { Grid(mouse.y[1]) } :
          \A adv \in { AllAdvanced } :
          \A i \in 1 .. Len(particles) :
              \A bx \in { particles'[i].x } : \A by \in { particles'[i].y } :
                  IF bx # adv[i].x \/ by # adv[i].y
                  THEN /\ Farther(adv[i].x, adv[i].y, mx, my, 50)
                       /\ C21_ScaledNearly(adv[i].x, bx, mx)
                       /\ C21_ScaledNearly(adv[i].y, by, my)
                       /\ Gap(bx, by, mx, my, C21_LeastNearly) >= 0
                  ELSE \/ ~Nearer(adv[i].x, adv[i].y, mx, my, 180)
                       \/ ~Farther(adv[i].x, adv[i].y, mx, my, 50) ]_vars

\* a frame with the pointer set has drawn a line from more than 50 pixels
\* away, where an earlier frame had moved the particle to, and the particle
\* is at 0.99 of that line's offsets from the pointer, to within a rounding
\* error
C21_Witness ==
    /\ Running
    /\ last.op = "frame"
    /\ mouse.x # Null
    /\ \E k \in 1 .. Len(drawn), i \in 1 .. Len(particles) :
          /\ drawn[k].op = "line" /\ drawn[k].to = "mouse"
          /\ ~IsGrid(drawn[k].x1)
          /\ Farther(drawn[k].x1, drawn[k].y1, drawn[k].x2, drawn[k].y2, 50)
          /\ (particles[i].x # drawn[k].x1 \/ particles[i].y # drawn[k].y1)
          /\ C21_ScaledNearly(drawn[k].x1, particles[i].x, drawn[k].x2)
          /\ C21_ScaledNearly(drawn[k].y1, particles[i].y, drawn[k].y2)

(***************************************************************************)
(* C22.  With frames running, the pointer unset and no further resize, a   *)
(* particle that is outside the surface is within it at some later time.   *)
(***************************************************************************)
C22_EventuallyInside ==
    ~ProbeInside ~> ProbeInside

(***************************************************************************)
(* C23.  In a frame the pair i < j is examined with particle i at its      *)
(* advanced position and particle j where it was when the frame began: a   *)
(* line is drawn exactly if these two points are less than 120 pixels      *)
(* apart, and it joins these two points.                                   *)
(***************************************************************************)
C23_PairUsesOldJ ==
    [][ FrameRun =>
          \A lines \in { ParticleLines(drawn') } :
          \A ends \in { { << lines[k].x1, lines[k].y1, lines[k].x2, lines[k].y2 >> :
                              k \in 1 .. Len(lines) } } :
          \A adv \in { AllAdvanced } :
          \A near \in { NearPairs(adv) } :
          \A i, j \in 1 .. Len(particles) :
              i < j =>
                  (<< i, j >> \in near <=> PairEnds(adv, << i, j >>) \in ends) ]_vars

\* a frame has drawn a line to the point where a particle was when the frame
\* began, an earlier frame having moved it there toward the pointer, and the
\* frame has moved it on: no particle is at that point now
C23_Witness ==
    /\ Running
    /\ last.op = "frame"
    /\ mouse.x # Null
    /\ \E k \in 1 .. Len(drawn) :
          /\ drawn[k].op = "line" /\ drawn[k].to = "particle"
          /\ ~IsGrid(drawn[k].x2)
          /\ \A l \in 1 .. Len(particles) :
                particles[l].x # drawn[k].x2 \/ particles[l].y # drawn[k].y2
          /\ \E j \in 1 .. Len(particles) :
                /\ C14_Computed(drawn[k].x2, particles[j].x, Grid(mouse.x[1]))
                /\ C14_Computed(drawn[k].y2, particles[j].y, Grid(mouse.y[1]))

(***************************************************************************)
(* C29.  In every state this.mouse.x is null exactly if this.mouse.y is.   *)
(***************************************************************************)
C29_PointerWhole ==
    (mouse.x = Null) <=> (mouse.y = Null)

\* a mouseout has been handled after a mousemove
C29_Witness ==
    /\ Running
    /\ last.op = "mouseout"
    /\ last.event # << >>
    /\ mouse.x = Null
    /\ mouse.y = Null


(***************************************************************************)
(* The mobile menu                                                         *)
(***************************************************************************)
\* the menu counts as open by each of its three indicators
C24_Agree(m) ==
    /\ m.btnActive <=> m.navActive
    /\ m.navActive <=> (m.ariaExpanded = Some("true"))

\* C24: from a closed menu, after any sequence of clicks on the button, on
\* nav links and elsewhere, the button has class 'active' iff the nav has
\* class 'active' iff the button's aria-expanded is 'true'.
C24_IndicatorsAgree == menu.present => C24_Agree(menu)

\* C24 witness: the menu is open by all three indicators, reopened after a
\* click on a nav link had closed it.
C24_Witness ==
    /\ menu.present
    /\ menu.btnActive /\ menu.navActive /\ menu.ariaExpanded = Some("true")
    /\ uiLast.click = "button"
    /\ uiLast.prevClick = "link"
    /\ uiLast.before2.navActive


\* the menu is closed by all three indicators, aria-expanded being 'false'
C25_Closed(m) ==
    /\ ~m.btnActive
    /\ ~m.navActive
    /\ m.ariaExpanded = Some("false")

\* C25: after a click on a nav link or outside both the nav menu and the
\* button, the menu is closed whatever it was before; a click on the button
\* only toggles (the document's listener does not close it again), so two
\* consecutive button clicks restore the indicators of the state before them.
C25_CloseAndToggle ==
    menu.present =>
        /\ uiLast.click \in { "link", "outside" } => C25_Closed(menu)
        /\ uiLast.click = "button" =>
              /\ menu.btnActive = ~uiLast.before.btnActive
              /\ menu.navActive = ~uiLast.before.navActive
              /\ (menu.ariaExpanded = Some("true")) =
                     ~(uiLast.before.ariaExpanded = Some("true"))
        /\ (uiLast.click = "button" /\ uiLast.prevClick = "button") =>
              /\ menu.btnActive = uiLast.before2.btnActive
              /\ menu.navActive = uiLast.before2.navActive
              /\ (menu.ariaExpanded = Some("true")) =
                     (uiLast.before2.ariaExpanded = Some("true"))

\* C25 witness: two consecutive button clicks on an open menu have left it
\* open again.
C25_Witness ==
    /\ menu.present
    /\ uiLast.click = "button"
    /\ uiLast.prevClick = "button"
    /\ uiLast.before2.navActive
    /\ ~uiLast.before.navActive
    /\ menu.navActive /\ menu.btnActive /\ menu.ariaExpanded = Some("true")

\* C25 witness of the closing clicks: a click outside has closed an open menu.
C25_WitnessOutside ==
    /\ menu.present
    /\ uiLast.click = "outside"
    /\ uiLast.before.navActive
    /\ C25_Closed(menu)


(***************************************************************************)
(* The contact form                                                        *)
(***************************************************************************)
\* the n-th submit event has been handled and is at the given stage
C26_Stage(n, stage) ==
    /\ Len(uiLast.subs) >= n
    /\ uiLast.subs[n].stage = stage

\* the n-th submission's request has just settled: success label, form reset,
\* 1500 ms after the submit
C26_JustSent(n) ==
    /\ C26_Stage(n, "sent")
    /\ uiLast.op = "settled"
    /\ uiLast.sub = n
    /\ uiLast.subs[n].sentAfter = 1500
    /\ form.text = SuccessLabel
    /\ ~form.dirty

\* the n-th submission's last timer has just run, 3000 ms after the success
\* label: the label the button had before that submit, enabled, no colour
C26_JustRestored(n) ==
    /\ C26_Stage(n, "restored")
    /\ uiLast.op = "restored"
    /\ uiLast.sub = n
    /\ uiLast.subs[n].restoredAfter = 3000
    /\ form.text = uiLast.subs[n].original
    /\ ~form.disabled
    /\ form.bg = ""

\* C26: every submission of a form with a submit button completes
\* its feedback cycle: 'Enviando...' and disabled at once, then after 1500 ms
\* the success label with the form reset, and 3000 ms later the label the
\* button had before that submission, enabled, with the background colour
\* cleared.
C26_CycleCompletes ==
    /\ [](\A n \in 1 .. MaxSubmits :
            (uiLast.op = "submit" /\ uiLast.sub = n /\ form.hasBtn)
                => (C26_Stage(n, "sending") /\ form.text = SendingLabel /\ form.disabled))
    /\ \A n \in 1 .. MaxSubmits : C26_Stage(n, "sending") ~> C26_JustSent(n)
    /\ \A n \in 1 .. MaxSubmits : C26_JustSent(n) ~> C26_JustRestored(n)

\* C26 witness: a submission made with edited fields has completed its cycle:
\* the button shows the markup's label again, enabled, and the fields are
\* reset.
C26_Witness ==
    /\ form.hasBtn
    /\ C26_JustRestored(1)
    /\ uiLast.subs[1].original \in SubmitLabels
    /\ uiLast.subs[1].sentAfter = 1500
    /\ ~form.dirty
    /\ uiLast.submits = 1


\* some submission has started and its last timer has not yet run
C27_InProgress ==
    \E n \in 1 .. Len(uiLast.subs) : uiLast.subs[n].stage \in { "sending", "sent", "error" }

\* C27: the submit button is disabled from the moment a submission's
\* listener starts until that submission's restore timer fires, and it is
\* never enabled while it shows 'Enviando...' or the success label.
C27_DisabledWhileBusy ==
    form.hasBtn =>
        /\ C27_InProgress => form.disabled
        /\ form.text \in { SendingLabel, SuccessLabel } => form.disabled

\* C28: for any sequence of submit events, also one that arrives while an
\* earlier submission is pending or shows its success label, once all timers
\* have fired the button shows the label it had before the first submission
\* and is enabled.
C28_FinalLabel ==
    (form.hasBtn /\ uiLast.submits > 0 /\ timers = << >>) =>
        /\ form.text = uiLast.subs[1].original
        /\ ~form.disabled


\* C30: when the form has a submit button, the error state of the submit
\* listener (label 'Error. Intente nuevamente.', red background, a call of
\* console.error) is never reached: every submission takes the success path.
C30_NoErrorState ==
    form.hasBtn =>
        /\ form.text # ErrorLabel
        /\ form.bg # ErrorRed
        /\ form.logged = 0
        /\ \A n \in 1 .. Len(uiLast.subs) :
              uiLast.subs[n].stage \in { "sending", "sent", "restored" }

\* C30 witness: the awaited request of a submission has settled, and the
\* button shows the success label on green.
C30_Witness ==
    /\ form.hasBtn
    /\ uiLast.op = "settled"
    /\ uiLast.subs[uiLast.sub].stage = "sent"
    /\ form.text = SuccessLabel
    /\ form.bg = SuccessGreen

====
